---- MODULE Spec2Model ----
(***************************************************************************)
(* A model of the crawl engine of webCrawl_Bot (src/src/crawler.py): the   *)
(* WebCrawler object, its crawl loop, the domain filter, the robots cache, *)
(* the rate limiter, the checkpoint save/load/retention code, the          *)
(* checkpoint timer and the signal handler.                                *)
(*                                                                         *)
(* Python values are modelled as follows.  A URL string is the record of   *)
(* the parts urlparse splits it into.  A path is the sequence of its       *)
(* tokens ("/" and names).  None and the empty list are both the empty     *)
(* set/sequence where the code only tests truthiness.  A float score is a  *)
(* fixed-point integer with ScoreOne standing for 1.0.                     *)
(***************************************************************************)
EXTENDS Integers, Sequences, FiniteSets, TLC

VARIABLES
    self,               \* the WebCrawler object: one field per attribute
    pc,                 \* position of the main thread inside crawl()
    cur,                \* the locals (url, depth) of the current iteration
    docs_since_recalc,  \* the local counter of crawl()
    now,                \* the wall clock (time.time(), whole seconds)
    files,              \* the checkpoint directory: path -> file
    timers,             \* the threading.Timer objects created so far
    hpc,                \* position of the innermost running signal handler
    last,               \* the last operation performed and its outcome
    log,                \* history: what was fetched / written so far
    env                 \* the environment: what the web serves, run limits

vars == <<self, pc, cur, docs_since_recalc, now, files, timers, hpc, last, log, env>>

-----------------------------------------------------------------------------
(* Bounds of the model *)

MaxDepthBound == 2      \* max_depth is drawn from 0..MaxDepthBound
MaxLinks == 2           \* a fetched page carries at most MaxLinks links

ScoreOne == 1000        \* the float 1.0 in fixed point

-----------------------------------------------------------------------------
(* URLs *)

Url(h, p, path, q, f) ==
    [scheme |-> "http", host |-> h, port |-> p, path |-> path, query |-> q, frag |-> f]

\* http://a.test/x, http://a.test/x/, http://b.test/
UA1 == Url("a.test", 0, <<"/", "x">>, "", "")
UA2 == Url("a.test", 0, <<"/", "x", "/">>, "", "")
UB  == Url("b.test", 0, <<"/">>, "", "")

CrawlUrls == {UA1, UA2, UB}

\* urlparse(url).netloc: host and port as written (port 0: none given)
Netloc(url) == <<url.host, url.port>>

Lower(s) ==
    CASE s = "A.test" -> "a.test"
      [] s = "X" -> "x"
      [] s = "INDEX.HTML" -> "index.html"
      [] s = "FOO" -> "foo"
      [] OTHER -> s

LowerPath(path) == [i \in 1..Len(path) |-> Lower(path[i])]

IndexFiles == {"index.html", "index.htm", "index.php"}
StaticFiles == {"index.html", "index.htm", "index.php", "p.html", "p.htm", "p.php", "p.asp", "p.aspx"}

Last(s) == s[Len(s)]
Front(s) == SubSeq(s, 1, Len(s) - 1)

\* path.endswith(("/index.html", "/index.htm", "/index.php"))
EndsWithIndex(path) ==
    Len(path) >= 2 /\ Last(path) \in IndexFiles /\ path[Len(path) - 1] = "/"

\* path.endswith((".html", ".htm", ".php", ".asp", ".aspx"))
EndsWithStatic(path) == Len(path) >= 1 /\ Last(path) \in StaticFiles

\* WebCrawler._normalize_url
_normalize_url(url) ==
    LET path0 == LowerPath(url.path)
        path1 == IF path0 # <<"/">> /\ Len(path0) >= 1 /\ Last(path0) = "/"
                 THEN Front(path0) ELSE path0
        netloc == IF url.port \in {80, 443}
                  THEN <<Lower(url.host), 0>>
                  ELSE <<Lower(url.host), url.port>>
        path2 == IF EndsWithIndex(path1) THEN Front(path1) ELSE path1
        query == IF EndsWithStatic(path2) THEN "" ELSE url.query
    IN  [scheme |-> url.scheme, host |-> netloc[1], port |-> netloc[2],
         path |-> path2, query |-> query, frag |-> ""]

-----------------------------------------------------------------------------
(* Small helpers *)

Range(s) == {s[i] : i \in 1..Len(s)}

Max(a, b) == IF a >= b THEN a ELSE b

SeqsUpTo(S, n) == UNION {[1..k -> S] : k \in 0..n}

RECURSIVE SetToSeq(_)
\* list(a_set): the elements in some order
SetToSeq(S) ==
    IF S = {} THEN <<>>
    ELSE LET x == CHOOSE y \in S : TRUE IN <<x>> \o SetToSeq(S \ {x})

NoDup(s) == \A i, j \in 1..Len(s) : s[i] = s[j] => i = j

-----------------------------------------------------------------------------
(* The WebCrawler object *)

Words == {"foo", "bar", "zzz"}

\* a validation with the lower limit only
ClampIntervalBelow(requested) == IF requested < 60 THEN 60 ELSE requested

\* the validation of checkpoint_interval in WebCrawler.__init__
ClampInterval(requested) ==
    IF requested < 60 THEN 60
    ELSE IF requested > 3600 THEN 3600
    ELSE requested

\* the seed URLs queued last first
SeedQueueReversed(seed_urls) == [i \in 1..Len(seed_urls) |-> <<seed_urls[Len(seed_urls) + 1 - i], 0>>]

\* self.queue after "for url in seed_urls: self.queue.append((url, 0))"
SeedQueue(seed_urls) == [i \in 1..Len(seed_urls) |-> <<seed_urls[i], 0>>]

\* WebCrawler.__init__: the attributes of a freshly constructed crawler
WebCrawler(seed_urls, keywords, max_depth, delay, checkpoint_interval, use_tfidf, stay_in_domain, allowed_domains, excluded_domains, regex_pattern, gemini_api_key, db_manager) ==
    [seed_urls |-> seed_urls,
     keywords |-> keywords,
     max_depth |-> max_depth,
     delay |-> delay,
     checkpoint_interval |-> ClampInterval(checkpoint_interval),
     use_tfidf |-> use_tfidf,
     min_relevance_score |-> 100,
     user_agent |-> "WebCrawler/1.0",
     stay_in_domain |-> stay_in_domain,
     allowed_domains |-> allowed_domains,
     excluded_domains |-> excluded_domains,
     regex_pattern |-> regex_pattern,
     gemini_api_key |-> gemini_api_key,
     db_manager |-> db_manager,
     seed_domains |-> IF stay_in_domain
                      THEN [i \in 1..Len(seed_urls) |-> Netloc(seed_urls[i])]
                      ELSE <<>>,
     visited |-> {},
     queue |-> SeedQueue(seed_urls),
     results |-> <<>>,
     robot_parsers |-> <<>>,
     domain_access_times |-> <<>>,
     crawl_in_progress |-> FALSE,
     checkpoint_timer |-> 0,
     document_frequencies |-> <<>>,
     total_documents |-> 0,
     use_stemming |-> FALSE,
     use_lemmatization |-> FALSE,
     remove_stopwords |-> FALSE]

-----------------------------------------------------------------------------
(* Domain filter *)

\* the filter with an allowed domain exempt from the exclusion list
ShouldCrawlAllowedFirst(url, allowed_domains, excluded_domains, stay_in_domain, seed_domains) ==
    LET domain == Netloc(url) IN
    IF allowed_domains # {} /\ domain \in allowed_domains THEN TRUE
    ELSE IF excluded_domains # {} /\ domain \in excluded_domains THEN FALSE
    ELSE IF allowed_domains # {} /\ domain \notin allowed_domains THEN FALSE
    ELSE IF stay_in_domain /\ seed_domains # <<>> /\ domain \notin Range(seed_domains)
         THEN FALSE
    ELSE TRUE

\* WebCrawler._should_crawl_domain, on the four attributes it reads
ShouldCrawl(url, allowed_domains, excluded_domains, stay_in_domain, seed_domains) ==
    LET domain == Netloc(url) IN
    IF excluded_domains # {} /\ domain \in excluded_domains THEN FALSE
    ELSE IF allowed_domains # {} /\ domain \notin allowed_domains THEN FALSE
    ELSE IF stay_in_domain /\ seed_domains # <<>> /\ domain \notin Range(seed_domains)
         THEN FALSE
    ELSE TRUE

_should_crawl_domain(s, url) ==
    ShouldCrawl(url, s.allowed_domains, s.excluded_domains, s.stay_in_domain,
                s.seed_domains)

\* main.filter_url_by_domain
filter_url_by_domain(url, allowed_domains, excluded_domains, stay_in_domain, seed_domains) ==
    LET domain == Netloc(url) IN
    IF excluded_domains # {} /\ domain \in excluded_domains THEN FALSE
    ELSE IF allowed_domains # {} /\ domain \notin allowed_domains THEN FALSE
    ELSE IF stay_in_domain /\ seed_domains # <<>> /\ domain \notin Range(seed_domains)
         THEN FALSE
    ELSE TRUE

-----------------------------------------------------------------------------
(* Robots cache *)

\* what RobotFileParser.read() can do: raise, or leave a ruleset in the parser
RobotsOutcomes == {"raise", "allow", "deny"}

\* the permissive fallback: RobotFileParser() with allow_all = True
PermissiveParser == [allow_all |-> TRUE, denied |-> {}]

\* a parser after a read() that returned: its rules deny a set of URLs
ReadParser(outcome) ==
    [allow_all |-> FALSE, denied |-> IF outcome = "deny" THEN CrawlUrls ELSE {}]

\* a fallback that denies instead of allowing
DenyingParser == [allow_all |-> FALSE, denied |-> CrawlUrls]

\* the parser a failed read() installs for the domain
FallbackParser == PermissiveParser

\* a lookup that reads robots.txt again although the domain is cached
_get_robot_parser_uncached(robot_parsers, url, outcome) ==
    LET parser == IF outcome = "raise" THEN PermissiveParser ELSE ReadParser(outcome)
    IN  <<parser, (Netloc(url) :> parser) @@ robot_parsers>>

\* WebCrawler._get_robot_parser: <<parser returned, robot_parsers afterwards>>
_get_robot_parser(robot_parsers, url, outcome) ==
    LET domain == Netloc(url) IN
    IF domain \in DOMAIN robot_parsers
    THEN <<robot_parsers[domain], robot_parsers>>
    ELSE LET parser == IF outcome = "raise" THEN FallbackParser ELSE ReadParser(outcome)
         IN  <<parser, (domain :> parser) @@ robot_parsers>>

\* WebCrawler._can_fetch, given the parser _get_robot_parser returned
_can_fetch(parser, url) ==
    IF parser.allow_all THEN TRUE ELSE url \notin parser.denied

-----------------------------------------------------------------------------
(* Rate limiter *)

\* time.sleep(sleep_time) in _respect_domain_rate_limits: the time slept
SleepTime(delay, elapsed) == IF elapsed < delay THEN delay - elapsed ELSE 0

\* the timestamp taken before the sleep instead of after it
AccessStampBeforeSleep(current_time, wake_time) == current_time

\* the timestamp _respect_domain_rate_limits stores: time.time() after the sleep
AccessStamp(current_time, wake_time) == wake_time

\* a limiter that spaces a request from the latest access to any domain
_respect_global_rate_limit(s, url, t, extra) ==
    LET domain == Netloc(url)
        stamps == {s.domain_access_times[d] : d \in DOMAIN s.domain_access_times}
        slept == IF stamps # {}
                 THEN SleepTime(s.delay, t - (CHOOSE m \in stamps : \A x \in stamps : x <= m))
                 ELSE 0
        wake == IF slept > 0 THEN t + slept + extra ELSE t
    IN  <<(domain :> AccessStamp(t, wake)) @@ s.domain_access_times, wake>>

\* WebCrawler._respect_domain_rate_limits at clock t, time.sleep oversleeping
\* by `extra`: <<domain_access_times afterwards, clock when the call returns>>
_respect_domain_rate_limits(s, url, t, extra) ==
    LET domain == Netloc(url)
        slept == IF domain \in DOMAIN s.domain_access_times
                 THEN SleepTime(s.delay, t - s.domain_access_times[domain])
                 ELSE 0
        wake == IF slept > 0 THEN t + slept + extra ELSE t
    IN  <<(domain :> AccessStamp(t, wake)) @@ s.domain_access_times, wake>>

\* the except clause of _respect_domain_rate_limits: time.sleep(self.delay)
RateLimitFallback(s, t, extra) ==
    <<s.domain_access_times, IF s.delay > 0 THEN t + s.delay + extra ELSE t>>

-----------------------------------------------------------------------------
(* Relevance *)

\* KeywordProcessor.process_text on a keyword: with stemming, lemmatization and
\* word_tokenize of a lower-cased keyword: its words
Tokenize(keyword) ==
    CASE keyword = "" -> {}
      [] keyword = "foo bar" -> {"foo", "bar"}
      [] OTHER -> {Lower(keyword)}

\* stopwords.words('english'), PorterStemmer.stem, WordNetLemmatizer.lemmatize
\* on the words of the model
StopWords == {"will"}

Stem(w) ==
    CASE w = "foos" -> "foo"
      [] w = "wills" -> "will"
      [] OTHER -> w

Lemmatize(w) ==
    CASE w = "wills" -> "will"
      [] OTHER -> w

\* KeywordProcessor.process_text on the words of a text: lower-case, drop the
\* stopwords, stem, lemmatize, each step if enabled
process_text(s, words) ==
    LET lowered == {Lower(w) : w \in words}
        kept == IF s.remove_stopwords THEN lowered \ StopWords ELSE lowered
        stemmed == IF s.use_stemming THEN {Stem(w) : w \in kept} ELSE kept
    IN  IF s.use_lemmatization THEN {Lemmatize(w) : w \in stemmed} ELSE stemmed

\* keyword_tokens of KeywordProcessor.is_relevant: the processed keyword, or
\* the lower-cased keyword itself when processing leaves no token
KeywordTokens(s, keyword) ==
    LET keyword_tokens == process_text(s, Tokenize(keyword))
    IN  IF keyword_tokens = {} THEN {Lower(keyword)} ELSE keyword_tokens

\* is_relevant requiring every keyword to match
KeywordsMatchAll(s, text, keywords) ==
    \A i \in 1..Len(keywords) : KeywordTokens(s, keywords[i]) \cap process_text(s, text) # {}

\* KeywordProcessor.is_relevant: some keyword's token set meets the text's
KeywordsMatch(s, text, keywords) ==
    \E i \in 1..Len(keywords) : KeywordTokens(s, keywords[i]) \cap process_text(s, text) # {}

\* "a in b" for two strings of the model
SubstringOf(a, b) ==
    \/ a = "" \/ a = b
    \/ a = "foo" /\ b = "foos"
    \/ a = "will" /\ b = "wills"

\* a search that tells upper case from lower case
PatternSearchExact(pattern, text) ==
    \/ pattern = "z*"
    \/ \E w \in text : SubstringOf(pattern, w)

\* re.compile(pattern, re.IGNORECASE).search(content) finds a match.  A
\* pattern is a literal word, found where it occurs in a word of the text in
\* any case, or "z*", which matches at position 0 of every text
PatternSearch(pattern, text) ==
    \/ pattern = "z*"
    \/ \E w \in text : SubstringOf(Lower(pattern), Lower(w))

\* WebCrawler._is_relevant; a text is the set of its words, the empty set for
\* the empty string; the pattern is "" for None
_is_relevant(s, text) ==
    IF text = {} THEN FALSE
    ELSE IF s.regex_pattern # "" THEN PatternSearch(s.regex_pattern, text)
    ELSE KeywordsMatch(s, text, s.keywords)

\* is_relevant and relevance_score as the crawl loop holds them after the
\* call: the pair _is_relevant returns with use_tfidf, else the verdict and
\* 1.0 or 0.0 by the verdict
RelevanceResult(s, text) ==
    LET is_relevant == _is_relevant(s, text)
    IN  [is_relevant |-> is_relevant,
         relevance_score |-> IF is_relevant THEN ScoreOne ELSE 0]

-----------------------------------------------------------------------------
(* Timer scheduling *)

Alive == pc # "exited"

\* threading.Timer.cancel() on self.checkpoint_timer
CancelTimer(ts, i) ==
    IF i # 0 /\ ts[i] = "pending" THEN [ts EXCEPT ![i] = "canceled"] ELSE ts

\* WebCrawler._schedule_checkpoint: <<crawler, timers>> afterwards
_schedule_checkpoint(s, ts) ==
    LET canceled == CancelTimer(ts, s.checkpoint_timer) IN
    IF s.crawl_in_progress
    THEN <<[s EXCEPT !.checkpoint_timer = Len(ts) + 1], Append(canceled, "pending")>>
    ELSE <<s, canceled>>

\* _cleanup up to the final save: mark stopped, cancel the timer
CleanupStop(s, ts) ==
    <<[s EXCEPT !.crawl_in_progress = FALSE, !.checkpoint_timer = 0],
      CancelTimer(ts, s.checkpoint_timer)>>

-----------------------------------------------------------------------------
(* The crawl loop *)

\* the pages requests.get + BeautifulSoup can produce for a URL: a failure, or a
\* text and the list _extract_links returns (no duplicates, no fragments)
PageTexts == {{"zzz"}, {"foo", "zzz"}}

Pages ==
    {[ok |-> FALSE, text |-> {}, links |-> <<>>]} \cup
    {[ok |-> TRUE, text |-> t, links |-> l] :
        t \in PageTexts, l \in {x \in SeqsUpTo(CrawlUrls, MaxLinks) : NoDup(x)}}

\* whether a dequeued link may be appended: "if link not in self.visited"
\* no link passes the test
EnqueueNothing(visited, link) == FALSE

MayEnqueue(visited, link) == link \notin visited

\* the links-extraction guard with the comparison off by one
ExtractsLinksAtMax(depth, max_depth) == depth <= max_depth

\* whether links are extracted at all: "if depth < self.max_depth"
ExtractsLinks(depth, max_depth) == depth < max_depth

\* the entry appended for a link found at depth: (link, depth + 1)
ChildEntry(link, depth) == <<link, depth + 1>>

\* an entry pushed at the end the loop pops from
PushFront(queue, entry) == <<entry>> \o queue

\* self.queue.append(entry): the right end of the deque
PushBack(queue, entry) == Append(queue, entry)

RECURSIVE EnqueueLinks(_, _, _, _)
\* "for link in links: if link not in self.visited: self.queue.append(...)"
EnqueueLinks(queue, visited, links, depth) ==
    IF links = <<>> THEN queue
    ELSE EnqueueLinks(IF MayEnqueue(visited, Head(links))
                      THEN PushBack(queue, ChildEntry(Head(links), depth))
                      ELSE queue,
                      visited, Tail(links), depth)

\* the number of new relevant documents that triggers a rescoring pass
RecalcEvery == 10

RECURSIVE InsertByScore(_, _)
\* the place list.sort(key=score, reverse=True) gives r among sorted results
InsertByScore(sorted, r) ==
    IF sorted = <<>> THEN <<r>>
    ELSE IF Head(sorted).relevance_score >= r.relevance_score
         THEN <<Head(sorted)>> \o InsertByScore(Tail(sorted), r)
         ELSE <<r>> \o sorted

\* the sort left out
KeepOrder(results) == results

RECURSIVE SortByScore(_)
\* self.results.sort(key=relevance_score, reverse=True): stable, descending
SortByScore(results) ==
    IF results = <<>> THEN <<>>
    ELSE InsertByScore(SortByScore(Front(results)), Last(results))

\* the number of scored documents below which the scorer takes its bootstrap
\* branch
BootstrapDocs == 10

\* the keyword occurs in the text only as a whole word
OccursAsWord(keyword, words) ==
    \E i \in 1..Len(words) : Lower(keyword) = Lower(words[i])

\* keyword.lower() in processed_text.lower(), the text being its words joined
\* by single spaces
Occurs(keyword, words) ==
    IF Lower(keyword) = "foo bar"
    THEN \E i \in 1..(Len(words) - 1) :
            Lower(words[i]) = "foo" /\ Lower(words[i + 1]) = "bar"
    ELSE Lower(keyword) = "" \/ \E i \in 1..Len(words) : SubstringOf(Lower(keyword), Lower(words[i]))

\* WebCrawler._calculate_tfidf_score(processed_text); processed_text.kind says
\* whether the caller passed a str or a list.  Bootstrap branch: the generator
\* calls processed_text.lower() once per keyword, which a list does not have;
\* it returns without touching the counters.  Other branch: a list has no
\* split(); with a str, process_text(keyword).split() is called on a list, and
\* with no keyword the name keyword_terms is unbound: it raises before the
\* update of document_frequencies and total_documents (crawler.py:1121-1125),
\* which no call reaches.  total_documents and document_frequencies are the
\* attributes the call leaves behind.
_calculate_tfidf_score(s, processed_text) ==
    LET Out(raised, score) ==
            [raised |-> raised, score |-> score,
             total_documents |-> s.total_documents,
             document_frequencies |-> s.document_frequencies]
    IN
    IF s.total_documents < BootstrapDocs
    THEN IF s.keywords # <<>> /\ processed_text.kind = "list"
         THEN Out(TRUE, 0)
         ELSE LET keyword_count ==
                      Cardinality({i \in 1..Len(s.keywords) :
                                      Occurs(s.keywords[i], processed_text.words)})
                  fraction == (keyword_count * ScoreOne) \div Max(1, Len(s.keywords))
              IN  Out(FALSE, IF fraction > ScoreOne THEN ScoreOne ELSE fraction)
    ELSE Out(TRUE, 0)

\* the argument _recalculate_relevance_scores passes: the token list
\* process_text returns for a result's content
ProcessedContent(s, result) ==
    [kind |-> "list", words |-> SetToSeq(process_text(s, result.content))]

\* _recalculate_relevance_scores raises: a result that has content is scored
\* and the scorer raises
RecalcRaises(s) ==
    /\ s.use_tfidf
    /\ \E i \in 1..Len(s.results) :
          /\ s.results[i].has_content
          /\ _calculate_tfidf_score(s, ProcessedContent(s, s.results[i])).raised

\* the result list a pass of _recalculate_relevance_scores that does not raise
\* leaves: every result with content rescored, the list sorted
_recalculate_relevance_scores(s) ==
    IF ~s.use_tfidf \/ s.results = <<>> THEN s.results
    ELSE SortByScore([i \in 1..Len(s.results) |->
            IF s.results[i].has_content
            THEN [s.results[i] EXCEPT !.relevance_score =
                    _calculate_tfidf_score(s, ProcessedContent(s, s.results[i])).score]
            ELSE s.results[i]])

\* the result dict appended for a relevant page
Result(url, depth, text, t) ==
    [url |-> url, title |-> url, relevance_score |-> ScoreOne, depth |-> depth,
     crawl_time |-> t, content |-> text, has_content |-> TRUE]

MainRuns == hpc = "none"

\* crawl() from "self.crawl_in_progress = True" to the loop
StartCrawl ==
    /\ MainRuns /\ pc = "idle"
    /\ LET r == _schedule_checkpoint([self EXCEPT !.crawl_in_progress = TRUE], timers)
       IN  self' = r[1] /\ timers' = r[2]
    /\ docs_since_recalc' = 0
    /\ pc' = "loop"
    /\ last' = [op |-> "start"]
    /\ UNCHANGED <<cur, now, files, hpc, log, env>>

\* only the domain-filter skip marks the URL
SkipMarksFilterOnly(why) == why = "domain"

\* the skips that run self.visited.add(url) before "continue": the domain
\* filter, robots.txt, the database; the visited/depth skip does not
SkipMarks(why) == why \in {"domain", "robots", "database"}

\* one pass of "while self.queue" from popleft to the rate-limit call
Dequeue ==
    /\ MainRuns /\ pc = "loop" /\ self.queue # <<>>
    /\ \E outcome \in env.robots, in_db \in BOOLEAN :
        LET url == Head(self.queue)[1]
            depth == Head(self.queue)[2]
            rest == Tail(self.queue)
            got == _get_robot_parser(self.robot_parsers, url, outcome)
            consulted == ~(url \in self.visited \/ depth > self.max_depth)
                         /\ _should_crawl_domain(self, url)
            failed == consulted /\ outcome = "raise"
                      /\ Netloc(url) \notin DOMAIN self.robot_parsers
            why == IF url \in self.visited \/ depth > self.max_depth THEN "visited"
                   ELSE IF ~_should_crawl_domain(self, url) THEN "domain"
                   ELSE IF ~_can_fetch(got[1], url) THEN "robots"
                   ELSE IF self.db_manager /\ in_db THEN "database"
                   ELSE "accept"
        IN
        /\ self' = [self EXCEPT
                      !.queue = rest,
                      !.visited = IF SkipMarks(why) THEN @ \cup {url} ELSE @,
                      !.robot_parsers = IF consulted THEN got[2] ELSE @]
        /\ log' = [log EXCEPT !.robots_failed =
                                 IF failed THEN @ \cup {Netloc(url)} ELSE @]
        /\ last' = [op |-> "dequeue", url |-> url, depth |-> depth, why |-> why,
                    robots_failed |-> failed, consulted |-> consulted,
                    parser |-> got[1]]
        /\ IF why = "accept"
           THEN cur' = <<url, depth>> /\ pc' = "rate"
           ELSE UNCHANGED <<pc, cur>>
    /\ UNCHANGED <<docs_since_recalc, now, files, timers, hpc, env>>

\* the add left out: the URL is not marked before the fetch is tried
MarkVisitedSkipped(visited, url) == visited

\* self.visited.add(url), ahead of the try block
MarkVisited(visited, url) == visited \cup {url}

\* _respect_domain_rate_limits(url), then self.visited.add(url)
RateLimit ==
    /\ MainRuns /\ pc = "rate"
    /\ \E extra \in env.oversleep :
        LET r == _respect_domain_rate_limits(self, cur[1], now, extra) IN
        /\ self' = [self EXCEPT !.domain_access_times = r[1],
                                !.visited = MarkVisited(@, cur[1])]
        /\ now' = r[2]
        /\ last' = [op |-> "await", url |-> cur[1], arrived |-> now, done |-> r[2]]
    /\ pc' = "fetch"
    /\ UNCHANGED <<cur, docs_since_recalc, files, timers, hpc, log, env>>

\* the try block of the loop body: fetch, score, record, enqueue links.  An
\* exception of add_crawled_page or of the rescoring pass leaves the block by
\* its except clause: what follows the raising call is not executed.
Fetch ==
    /\ MainRuns /\ pc = "fetch"
    /\ \E page \in env.web, db_ok \in env.db_add :
        LET url == cur[1]
            depth == cur[2]
            relevant == page.ok /\ _is_relevant(self, page.text)
            recorded == IF relevant
                        THEN Append(self.results, Result(url, depth, page.text, now))
                        ELSE self.results
            stored == ~(relevant /\ self.db_manager) \/ db_ok
            counted == IF relevant /\ stored
                       THEN docs_since_recalc + 1 ELSE docs_since_recalc
            rescoring == relevant /\ stored /\ self.use_tfidf /\ counted >= RecalcEvery
            raised == rescoring /\ RecalcRaises([self EXCEPT !.results = recorded])
            enqueue == page.ok /\ stored /\ ~raised /\ ExtractsLinks(depth, self.max_depth)
        IN
        /\ self' = [self EXCEPT
                      !.results =
                          IF rescoring /\ ~raised
                          THEN _recalculate_relevance_scores([self EXCEPT !.results = recorded])
                          ELSE recorded,
                      !.queue = IF enqueue
                                THEN EnqueueLinks(@, self.visited, page.links, depth)
                                ELSE @]
        /\ docs_since_recalc' = IF rescoring /\ ~raised THEN 0 ELSE counted
        /\ log' = [log EXCEPT !.fetched = Append(@, url)]
        /\ last' = [op |-> "fetch", url |-> url, depth |-> depth, page |-> page,
                    stored |-> stored, rescoring |-> rescoring, raised |-> raised]
    /\ pc' = "loop"
    /\ UNCHANGED <<cur, now, files, timers, hpc, env>>

-----------------------------------------------------------------------------
(* Checkpoint files *)

\* checkpoint_data of _save_checkpoint, as json.dump writes it: the set becomes
\* a list, every other value keeps its shape
CheckpointData(s, timestamp) ==
    [timestamp |-> timestamp,
     keywords |-> s.keywords,
     seed_urls |-> s.seed_urls,
     max_depth |-> s.max_depth,
     delay |-> s.delay,
     visited |-> SetToSeq(s.visited),
     queue |-> s.queue,
     results |-> s.results,
     use_stemming |-> s.use_stemming,
     use_lemmatization |-> s.use_lemmatization,
     remove_stopwords |-> s.remove_stopwords,
     use_tfidf |-> s.use_tfidf,
     min_relevance_score |-> s.min_relevance_score,
     document_frequencies |-> s.document_frequencies,
     total_documents |-> s.total_documents,
     user_agent |-> s.user_agent,
     stay_in_domain |-> s.stay_in_domain,
     allowed_domains |-> s.allowed_domains,
     excluded_domains |-> s.excluded_domains,
     regex_pattern |-> s.regex_pattern,
     seed_domains |-> s.seed_domains]

\* checkpoint_path: crawler_checkpoint_{type}_{timestamp}.json in checkpoint_dir
CheckpointPath(checkpoint_type, timestamp) == <<checkpoint_type, timestamp>>

\* a file json.load reads as an object: its members, those whose value is not of
\* the type the loader needs (a number where a list is expected), its mtime;
\* origin remembers the crawler that wrote it (by = "save")
JsonFile(data, illtyped, mtime, by, origin) ==
    [parse |-> "object", data |-> data, illtyped |-> illtyped, mtime |-> mtime,
     by |-> by, origin |-> origin]

KeepAuto == 5
KeepFinal == 1

PathsOfKind(fs, kind) == {p \in DOMAIN fs : p[1] = kind}

\* os.listdir order of two files of a kind: arbitrary, fixed by the file system
ListedBefore(p, q) == IF env.listing = "asc" THEN p[2] < q[2] ELSE p[2] > q[2]

\* the sweep with the sort left ascending: the oldest `keep` files survive
OldestKept(fs, kind, keep) ==
    {p \in PathsOfKind(fs, kind) :
        Cardinality({q \in PathsOfKind(fs, kind) :
                        \/ fs[q].mtime < fs[p].mtime
                        \/ fs[q].mtime = fs[p].mtime /\ ListedBefore(q, p)}) >= keep}

\* the files of a kind that follow the first `keep` after the stable
\* sort(key=getmtime, reverse=True) of the listing: ties stay in listing order
OlderThanNewest(fs, kind, keep) ==
    {p \in PathsOfKind(fs, kind) :
        Cardinality({q \in PathsOfKind(fs, kind) :
                        \/ fs[q].mtime > fs[p].mtime
                        \/ fs[q].mtime = fs[p].mtime /\ ListedBefore(q, p)}) >= keep}

\* the files _cleanup_old_checkpoints removes
SweptPaths(fs) ==
    OlderThanNewest(fs, "auto", KeepAuto) \cup OlderThanNewest(fs, "final", KeepFinal)

\* WebCrawler._cleanup_old_checkpoints
_cleanup_old_checkpoints(fs) ==
    [p \in DOMAIN fs \ SweptPaths(fs) |-> fs[p]]

\* whether _save_checkpoint returns None before writing anything
SaveSuppressed(s, checkpoint_type) ==
    ~s.crawl_in_progress /\ checkpoint_type = "auto"

\* _save_checkpoint with the API key written into the snapshot
SaveWithKey(s, fs, checkpoint_type, t, io_ok) ==
    IF SaveSuppressed(s, checkpoint_type) \/ ~io_ok THEN <<<<>>, fs>>
    ELSE LET path == CheckpointPath(checkpoint_type, t)
             data == ("gemini_api_key" :> s.gemini_api_key) @@ CheckpointData(s, t)
             written == (path :> JsonFile(data, {}, t, "save", s)) @@ fs
         IN  <<path, _cleanup_old_checkpoints(written)>>

\* WebCrawler._save_checkpoint at clock t; io_ok: open/json.dump do not raise.
\* <<path returned (<<>> for None), directory afterwards>>
_save_checkpoint(s, fs, checkpoint_type, t, io_ok) ==
    IF SaveSuppressed(s, checkpoint_type) \/ ~io_ok THEN <<<<>>, fs>>
    ELSE LET path == CheckpointPath(checkpoint_type, t)
             written == (path :> JsonFile(CheckpointData(s, t), {}, t, "save", s)) @@ fs
         IN  <<path, _cleanup_old_checkpoints(written)>>

\* _save_checkpoint from its try block (crawler.py:678) to its return: the
\* thread writes s, the values checkpoint_data holds when json.dump has run
\* through it, under the name made at clock t, at clock mtime
WriteCheckpoint(s, fs, checkpoint_type, t, mtime, io_ok) ==
    IF ~io_ok THEN <<<<>>, fs>>
    ELSE LET path == CheckpointPath(checkpoint_type, t)
             written == (path :> JsonFile(CheckpointData(s, t), {}, mtime, "save", s)) @@ fs
         IN  <<path, _cleanup_old_checkpoints(written)>>

\* checkpoint_data as the timer thread built it (crawler.py:648-676):
\* timestamp, the values of the attributes, copies of visited and queue, and
\* the list object self.results itself, live while self.results is that object
BuiltData(s, t) == [data |-> s, timestamp |-> t, live |-> TRUE]

\* what json.dump finds in a checkpoint_data built earlier: the results are
\* those the list object holds now
DumpedData(built, s) ==
    IF built.live THEN [built.data EXCEPT !.results = s.results] ELSE built.data

\* load_checkpoint binds self.results to a new list: a checkpoint_data built
\* before keeps the old list as it is at that moment
Detached(copies, s) ==
    [i \in DOMAIN copies |->
        IF copies[i].live
        THEN [copies[i] EXCEPT !.data.results = s.results, !.live = FALSE]
        ELSE copies[i]]

Get(data, key, default) == IF key \in DOMAIN data THEN data[key] ELSE default

\* defaults that are the live values of the crawler
LoadDefaultLive(s) ==
    [visited |-> SetToSeq(s.visited), queue |-> s.queue, results |-> s.results,
     document_frequencies |-> s.document_frequencies,
     total_documents |-> s.total_documents]

\* the default load_checkpoint gives an absent "visited" / "queue" / "results" /
\* "document_frequencies" / "total_documents" member
LoadDefault(s) == [visited |-> <<>>, queue |-> <<>>, results |-> <<>>,
                   document_frequencies |-> <<>>, total_documents |-> 0]

\* set(checkpoint_data.get("visited", [])) merged into the live set
RestoredVisitedMerged(s, d, dflt) == s.visited \cup Range(Get(d, "visited", dflt.visited))

\* self.visited = set(checkpoint_data.get("visited", []))
RestoredVisited(s, d, dflt) == Range(Get(d, "visited", dflt.visited))

\* WebCrawler.load_checkpoint on an opened, parsed object: the assignments in
\* source order; set(), deque() and Counter() raise on an ill-typed member and
\* the except clause returns False.  <<crawler afterwards, value returned>>
RestoreFrom(s, f) ==
    LET d == f.data
        dflt == LoadDefault(s)
        s1 == [s EXCEPT !.keywords = Get(d, "keywords", s.keywords),
                        !.seed_urls = Get(d, "seed_urls", s.seed_urls),
                        !.max_depth = Get(d, "max_depth", s.max_depth),
                        !.delay = Get(d, "delay", s.delay)]
        s2 == [s1 EXCEPT !.visited = RestoredVisited(s, d, dflt)]
        s3 == [s2 EXCEPT !.queue = Get(d, "queue", dflt.queue)]
        s4 == [s3 EXCEPT
                 !.results = Get(d, "results", dflt.results),
                 !.use_stemming = Get(d, "use_stemming", s.use_stemming),
                 !.use_lemmatization = Get(d, "use_lemmatization", s.use_lemmatization),
                 !.remove_stopwords = Get(d, "remove_stopwords", s.remove_stopwords),
                 !.use_tfidf = Get(d, "use_tfidf", s.use_tfidf),
                 !.min_relevance_score =
                     Get(d, "min_relevance_score", s.min_relevance_score)]
        s5 == [s4 EXCEPT
                 !.document_frequencies =
                     Get(d, "document_frequencies", dflt.document_frequencies)]
        s6 == [s5 EXCEPT
                 !.total_documents = Get(d, "total_documents", dflt.total_documents),
                 !.user_agent = Get(d, "user_agent", s.user_agent),
                 !.stay_in_domain = Get(d, "stay_in_domain", s.stay_in_domain),
                 !.allowed_domains = Get(d, "allowed_domains", s.allowed_domains),
                 !.excluded_domains = Get(d, "excluded_domains", s.excluded_domains),
                 !.regex_pattern = Get(d, "regex_pattern", s.regex_pattern),
                 !.seed_domains = Get(d, "seed_domains", s.seed_domains)]
    IN  IF "visited" \in f.illtyped THEN <<s1, FALSE>>
        ELSE IF "queue" \in f.illtyped THEN <<s2, FALSE>>
        ELSE IF "document_frequencies" \in f.illtyped THEN <<s4, FALSE>>
        ELSE <<s6, TRUE>>

\* WebCrawler.load_checkpoint(path): open/json.load raise on a missing or
\* unparsable file, .get raises on a JSON value that is not an object
load_checkpoint(s, fs, path) ==
    IF path \notin DOMAIN fs THEN <<s, FALSE>>
    ELSE IF fs[path].parse # "object" THEN <<s, FALSE>>
    ELSE RestoreFrom(s, fs[path])

-----------------------------------------------------------------------------
(* Cleanup, signals, timer thread *)

\* the variant of the state that differs only in the API key
OtherKey(key) == IF key = "key1" THEN "key2" ELSE "key1"
Twin(s) == [s EXCEPT !.gemini_api_key = OtherKey(s.gemini_api_key)]

\* what a save leaves in `files`, `last` and `log`: r is what the crawler's
\* save returned, twin what the save of its twin returned, io_ok whether open
\* and json.dump could write
SaveEffect(kind, r, twin, io_ok, done) ==
    /\ files' = r[2]
    /\ last' = [op |-> "save", kind |-> kind, path |-> r[1],
                twin_files |-> twin[2], in_progress |-> self.crawl_in_progress,
                io_ok |-> io_ok,
                overwrote |-> r[1] # <<>> /\ r[1] \in DOMAIN files /\ files[r[1]].by = "save"]
    /\ log' = [log EXCEPT
                 !.copies = [i \in DOMAIN @ \ done |-> @[i]],
                 !.saves = @ + 1,
                 !.final_calls = IF kind = "final" THEN @ + 1 ELSE @,
                 !.final_saves = IF kind = "final" /\ r[1] # <<>> THEN @ + 1 ELSE @]

\* a call _save_checkpoint(kind) that runs without another thread in between
DoSave(kind, io_ok) ==
    SaveEffect(kind, _save_checkpoint(self, files, kind, now, io_ok),
               _save_checkpoint(Twin(self), files, kind, now, io_ok), io_ok, {})

Tick ==
    /\ Alive /\ now < env.max_time
    /\ now' = now + 1
    /\ UNCHANGED <<self, pc, cur, docs_since_recalc, files, timers, hpc, last, log, env>>

\* crawl(): "while self.queue" fails, the finally clause enters _cleanup
LoopExit ==
    /\ MainRuns /\ pc = "loop" /\ self.queue = <<>>
    /\ LET r == CleanupStop(self, timers) IN self' = r[1] /\ timers' = r[2]
    /\ pc' = "cleanup_save"
    /\ last' = [op |-> "cleanup"]
    /\ UNCHANGED <<cur, docs_since_recalc, now, files, hpc, log, env>>

\* _cleanup: the final save
CleanupSave ==
    /\ MainRuns /\ pc = "cleanup_save"
    /\ \E io_ok \in BOOLEAN : DoSave("final", io_ok)
    /\ pc' = "finish"
    /\ UNCHANGED <<self, cur, docs_since_recalc, now, timers, hpc, env>>

\* "del result['content']" for every result
DropContent(results) ==
    [i \in 1..Len(results) |-> [results[i] EXCEPT !.content = {}, !.has_content = FALSE]]

\* crawl() after _cleanup: the final rescoring, the end of the database
\* session, the sort, the content removal
Finish ==
    /\ MainRuns /\ pc = "finish"
    /\ IF self.use_tfidf /\ docs_since_recalc > 0 /\ RecalcRaises(self)
       THEN /\ pc' = "raised"
            /\ UNCHANGED <<self, log>>
       ELSE /\ pc' = "done"
            /\ log' = [log EXCEPT
                         !.rescored = @ \/ (self.use_tfidf /\ docs_since_recalc > 0),
                         !.session_ended = @ \/ self.db_manager]
            /\ self' = [self EXCEPT !.results =
                          DropContent(
                              IF self.use_tfidf
                              THEN SortByScore(IF docs_since_recalc > 0
                                               THEN _recalculate_relevance_scores(self)
                                               ELSE @)
                              ELSE @)]
    /\ last' = [op |-> "finish"]
    /\ UNCHANGED <<cur, docs_since_recalc, now, files, timers, hpc, env>>

\* SIGINT/SIGTERM is delivered: signal_handler starts on the main thread
Signal ==
    /\ Alive /\ log.signals < env.max_signals
    /\ hpc' = "h_cleanup"
    /\ log' = [log EXCEPT !.signals = @ + 1]
    /\ last' = [op |-> "signal"]
    /\ UNCHANGED <<self, pc, cur, docs_since_recalc, now, files, timers, env>>

\* signal_handler: _cleanup up to the final save
HandlerCleanup ==
    /\ Alive /\ hpc = "h_cleanup"
    /\ LET r == CleanupStop(self, timers) IN self' = r[1] /\ timers' = r[2]
    /\ hpc' = "h_save"
    /\ last' = [op |-> "cleanup"]
    /\ UNCHANGED <<pc, cur, docs_since_recalc, now, files, log, env>>

\* signal_handler: the final save of _cleanup
HandlerSave ==
    /\ Alive /\ hpc = "h_save"
    /\ \E io_ok \in BOOLEAN : DoSave("final", io_ok)
    /\ hpc' = "h_exit"
    /\ UNCHANGED <<self, pc, cur, docs_since_recalc, now, timers, env>>

\* signal_handler: os._exit(0)
HandlerExit ==
    /\ Alive /\ hpc = "h_exit"
    /\ pc' = "exited"
    /\ hpc' = "none"
    /\ last' = [op |-> "exit"]
    /\ UNCHANGED <<self, cur, docs_since_recalc, now, files, timers, log, env>>

\* a pending timer expires: its thread enters _auto_checkpoint and tests
\* self.crawl_in_progress
TimerFire ==
    /\ Alive /\ log.saves < env.max_saves
    /\ \E i \in 1..Len(timers) :
        /\ timers[i] = "pending"
        /\ timers' = [timers EXCEPT ![i] = IF self.crawl_in_progress
                                           THEN "saving" ELSE "fired"]
    /\ last' = [op |-> "timer"]
    /\ UNCHANGED <<self, pc, cur, docs_since_recalc, now, files, hpc, log, env>>

\* _auto_checkpoint calls self._save_checkpoint("auto"): the timer thread
\* evaluates the suppression test of _save_checkpoint (crawler.py:642)
TimerSave ==
    /\ Alive
    /\ \E i \in 1..Len(timers) :
        /\ timers[i] = "saving"
        /\ timers' = [timers EXCEPT ![i] = IF SaveSuppressed(self, "auto")
                                           THEN "scheduling" ELSE "building"]
    /\ last' = [op |-> "timer_test"]
    /\ UNCHANGED <<self, pc, cur, docs_since_recalc, now, files, hpc, log, env>>

\* the timer thread, past the test, makes the file name and builds
\* checkpoint_data (crawler.py:645-676); the main thread may have run in
\* between
TimerBuild ==
    /\ Alive
    /\ \E i \in 1..Len(timers) :
        /\ timers[i] = "building"
        /\ timers' = [timers EXCEPT ![i] = "writing"]
        /\ log' = [log EXCEPT !.copies = (i :> BuiltData(self, now)) @@ @]
    /\ last' = [op |-> "timer_build"]
    /\ UNCHANGED <<self, pc, cur, docs_since_recalc, now, files, hpc, env>>

\* the callback gives up after a save that failed
AfterSaveGiveUp(io_ok) == IF io_ok THEN "scheduling" ELSE "fired"

\* where _auto_checkpoint goes after _save_checkpoint: to _schedule_checkpoint,
\* whether the save returned a path, returned None or raised (crawler.py:624-629)
AfterSave(io_ok) == "scheduling"

\* the timer thread writes checkpoint_data to the file and sweeps
\* (crawler.py:678-687); the main thread may have run since the data was
\* built, and what it appended to self.results is written with it
TimerWrite ==
    /\ Alive
    /\ \E i \in 1..Len(timers), io_ok \in BOOLEAN :
        LET built == log.copies[i]
            t == built.timestamp
        IN
        /\ timers[i] = "writing"
        /\ timers' = [timers EXCEPT ![i] = AfterSave(io_ok)]
        /\ SaveEffect("auto",
                      WriteCheckpoint(DumpedData(built, self), files, "auto", t, now, io_ok),
                      WriteCheckpoint(Twin(DumpedData(built, self)), files, "auto", t, now, io_ok),
                      io_ok, {i})
    /\ UNCHANGED <<self, pc, cur, docs_since_recalc, now, hpc, env>>

\* _auto_checkpoint calls self._schedule_checkpoint(): the timer thread cancels
\* the timer the object holds and tests self.crawl_in_progress
\* (crawler.py:603-610)
TimerSchedule ==
    /\ Alive
    /\ \E i \in 1..Len(timers) :
        /\ timers[i] = "scheduling"
        /\ timers' = [CancelTimer(timers, self.checkpoint_timer) EXCEPT
                         ![i] = IF self.crawl_in_progress THEN "starting" ELSE "fired"]
    /\ last' = [op |-> "schedule_test"]
    /\ UNCHANGED <<self, pc, cur, docs_since_recalc, now, files, hpc, log, env>>

\* the timer thread, past the test, creates and starts the next Timer
\* (crawler.py:611-614); the main thread may have run in between
TimerStart ==
    /\ Alive
    /\ \E i \in 1..Len(timers) :
        /\ timers[i] = "starting"
        /\ self' = [self EXCEPT !.checkpoint_timer = Len(timers) + 1]
        /\ timers' = Append([timers EXCEPT ![i] = "fired"], "pending")
    /\ last' = [op |-> "schedule"]
    /\ UNCHANGED <<pc, cur, docs_since_recalc, now, files, hpc, log, env>>

\* a caller invokes _save_checkpoint("manual") between crawls
ManualSave ==
    /\ MainRuns /\ pc \in {"idle", "done"} /\ log.saves < env.max_saves
    /\ \E io_ok \in BOOLEAN : DoSave("manual", io_ok)
    /\ UNCHANGED <<self, pc, cur, docs_since_recalc, now, timers, hpc, env>>

\* load_checkpoint(path): by crawl(resume_from_checkpoint) before the loop
\* starts, or by a caller after a crawl
LoadCheckpoint ==
    /\ MainRuns /\ pc \in {"idle", "done"} /\ log.loads < env.max_loads
    /\ \E path \in DOMAIN files \cup {<<"missing", 0>>} :
        LET r == load_checkpoint(self, files, path) IN
        /\ self' = r[1]
        /\ last' = [op |-> "load", path |-> path, ok |-> r[2], before |-> self]
    /\ log' = [log EXCEPT !.loads = @ + 1, !.copies = Detached(@, self)]
    /\ UNCHANGED <<pc, cur, docs_since_recalc, now, files, timers, hpc, env>>

-----------------------------------------------------------------------------
(* Sessions *)

NoCur == <<UA1, 0>>

NewLog == [fetched |-> <<>>, robots_failed |-> {}, saves |-> 0, final_calls |-> 0,
           copies |-> <<>>,
           final_saves |-> 0, signals |-> 0, loads |-> 0, turns |-> <<>>,
           rescored |-> FALSE, session_ended |-> FALSE]

\* the state right after WebCrawler(...) returns, in an environment e
Constructed(crawler, e, fs, t) ==
    /\ self = crawler
    /\ pc = "idle"
    /\ cur = NoCur
    /\ docs_since_recalc = 0
    /\ now = t
    /\ files = fs
    /\ timers = <<>>
    /\ hpc = "none"
    /\ last = [op |-> "init"]
    /\ log = NewLog
    /\ env = e

SeedLists == {x \in SeqsUpTo(CrawlUrls, 2) : Len(x) >= 1}

DomainB == <<"b.test", 0>>

\* one crawl session from the constructor, over every web of the three URLs
CrawlInit ==
    \E seeds \in SeedLists, depth \in 0..MaxDepthBound, db \in BOOLEAN,
       excluded \in {{}, {DomainB}} :
        Constructed(WebCrawler(seeds, <<"foo">>, depth, 0, 300, FALSE, FALSE, {},
                               excluded, "", "key1", db),
                    [web |-> Pages, robots |-> RobotsOutcomes, oversleep |-> {0},
                     max_time |-> 0, max_saves |-> 0, max_signals |-> 0,
                     max_loads |-> 0, listing |-> "asc", db_add |-> {TRUE}],
                    <<>>, 0)

CrawlNext ==
    \/ StartCrawl
    \/ Dequeue
    \/ RateLimit
    \/ Fetch
    \/ LoopExit
    \/ CleanupSave
    \/ Finish

SpecCrawl == CrawlInit /\ [][CrawlNext]_vars

-----------------------------------------------------------------------------
(* Claims about the crawl loop, checked under SpecCrawl *)

\* C1: for every dedup key k = normalize(url), at most one page fetch is issued
\* in a session for a URL whose key is k.
C1_OneFetchPerKey ==
    \A i, j \in 1..Len(log.fetched) :
        _normalize_url(log.fetched[i]) = _normalize_url(log.fetched[j]) => i = j

QueueDepthsInRange ==
    \A i \in 1..Len(self.queue) :
        self.queue[i][2] >= 0 /\ self.queue[i][2] <= self.max_depth

AppendsAreChildren ==
    Len(self'.queue) > Len(self.queue) =>
        /\ pc = "fetch"
        /\ cur[2] < self.max_depth
        /\ SubSeq(self'.queue, 1, Len(self.queue)) = self.queue
        /\ \A i \in (Len(self.queue) + 1)..Len(self'.queue) :
              self'.queue[i][2] = cur[2] + 1

\* C2: every frontier entry has 0 <= depth <= max_depth; every entry appended
\* while processing a page dequeued at depth p has depth p + 1; links found on
\* a page at depth = max_depth are never enqueued.
C2_DepthBounded == [](QueueDepthsInRange) /\ [][AppendsAreChildren]_vars

\* a page at max_depth >= 1 with links was fetched (none of them was enqueued)
C2_Witness ==
    /\ last.op = "fetch" /\ last.page.ok /\ last.page.links # <<>>
    /\ last.depth = self.max_depth /\ last.depth >= 1

\* C3: at every iteration boundary of the crawl loop no URL is at the same
\* time an entry of the frontier queue and a member of the visited set.
C3_FrontierVisitedDisjoint ==
    pc = "loop" => \A i \in 1..Len(self.queue) : self.queue[i][1] \notin self.visited

FailedFetchStep ==
    (pc = "fetch" /\ last'.op = "fetch" /\ ~last'.page.ok) =>
        /\ cur[1] \in self'.visited
        /\ self'.results = self.results
        /\ self'.queue = self.queue
        /\ pc' = "loop"

\* C13: if the fetch or parse of a dequeued URL raises, the URL is in the
\* visited set, no result is recorded for it, the frontier gains no entry from
\* it and the loop goes on; the failure never ends the crawl.
C13_FetchFailureContained ==
    /\ [][FailedFetchStep]_vars
    /\ []((last.op = "fetch" /\ ~last.page.ok) => (pc = "loop" /\ last.url \in self.visited))

\* a fetch failed after an earlier page had been recorded, with entries left
C13_Witness ==
    /\ last.op = "fetch" /\ ~last.page.ok
    /\ self.queue # <<>> /\ self.results # <<>>
    /\ last.url \in self.visited

\* C22: in every reachable state no two entries of the frontier have the same
\* URL key, whether they are seed entries or links found on different pages.
C22_NoDuplicateInQueue ==
    \A i, j \in 1..Len(self.queue) :
        _normalize_url(self.queue[i][1]) = _normalize_url(self.queue[j][1]) => i = j

-----------------------------------------------------------------------------
(* The uninterrupted crawl, its loop never starved *)

LinkedWeb ==
    {[ok |-> FALSE, text |-> {}, links |-> <<>>]} \cup
    {[ok |-> TRUE, text |-> {"foo", "zzz"}, links |-> l] :
        l \in {<<>>, <<UB>>, <<UA2, UB>>, <<UB, UA1>>}}

LiveInit ==
    \E seeds \in SeedLists, depth \in 0..1, filtered \in BOOLEAN :
        Constructed(WebCrawler(seeds, <<"foo">>, depth, 0, 300, FALSE, FALSE, {},
                               IF filtered THEN {DomainB} ELSE {}, "", "key1", filtered),
                    [web |-> LinkedWeb,
                     robots |-> IF filtered THEN RobotsOutcomes ELSE {"allow"},
                     oversleep |-> {0}, max_time |-> 0, max_saves |-> 0,
                     max_signals |-> 0, max_loads |-> 0, listing |-> "asc", db_add |-> {TRUE}],
                    <<>>, 0)

\* the main thread keeps running crawl(): every fetch and every wait returns
SpecLive == LiveInit /\ [][CrawlNext]_vars /\ WF_vars(CrawlNext)

InQueue(u) == \E i \in 1..Len(self.queue) : self.queue[i][1] = u

Unfiltered ==
    env.robots = {"allow"} /\ ~self.db_manager /\ self.excluded_domains = {}

\* right after a seed page at depth 0 was fetched with max_depth = 1, each of
\* its links not yet visited is in the frontier at depth 1
SeedLinksEnqueued ==
    (last.op = "fetch" /\ last.page.ok /\ last.depth = 0 /\ self.max_depth = 1) =>
        \A k \in 1..Len(last.page.links) :
            last.page.links[k] \notin self.visited =>
                \E i \in 1..Len(self.queue) : self.queue[i] = <<last.page.links[k], 1>>

\* C18: in an uninterrupted crawl every frontier entry is eventually dequeued
\* and its URL ends in the visited set, fetched unless a filter skips it; a
\* link found on a seed page at depth 0 with max_depth = 1 is enqueued at depth
\* 1 and fetched.
C18_EnqueuedIsProcessed ==
    /\ [](SeedLinksEnqueued)
    /\ \A u \in CrawlUrls : InQueue(u) ~> (~InQueue(u) /\ u \in self.visited)
    /\ \A u \in CrawlUrls : (Unfiltered /\ InQueue(u)) ~> (u \in Range(log.fetched))

\* the link b.test found on the only seed page was fetched at depth 1
C18_Witness ==
    /\ last.op = "fetch" /\ last.url = UB /\ last.depth = 1
    /\ self.max_depth = 1 /\ self.seed_urls = <<UA1>>
    /\ log.fetched = <<UA1, UB>>
    /\ Unfiltered

\* a dequeue that skips its URL by the filter, robots.txt or the database adds
\* exactly that URL to the visited set; a dequeue of a visited URL adds nothing;
\* an accepted URL is added by the step that follows, where it was not a member
MarkedOnceStep ==
    /\ (last'.op = "dequeue" /\ last'.why \in {"domain", "robots", "database"}) =>
          /\ last'.url \notin self.visited
          /\ self'.visited = self.visited \cup {last'.url}
          /\ pc' = "loop"
    /\ (last'.op = "dequeue" /\ last'.why \in {"visited", "accept"}) =>
          self'.visited = self.visited
    /\ (pc = "rate" /\ pc' = "fetch") =>
          /\ cur[1] \notin self.visited
          /\ self'.visited = self.visited \cup {cur[1]}
    /\ self.visited \subseteq self'.visited

SkippedUrl(u) == last.op = "dequeue" /\ last.url = u /\ last.why \in {"domain", "robots", "database"}

FetchOf(u) == last.op = "fetch" /\ last.url = u

\* C23: a dequeued URL that is not yet visited enters the visited set exactly
\* once, in the iteration that dequeued it, whether it is fetched or skipped by
\* the domain filter, robots.txt or the database; a URL skipped so is never
\* fetched afterwards.
C23_MarkedOnce ==
    /\ [][MarkedOnceStep]_vars
    /\ [](pc = "fetch" => cur[1] \in self.visited)
    /\ \A u \in CrawlUrls : [](SkippedUrl(u) => [](~FetchOf(u)))

\* a URL skipped by the database check is in the visited set, after an earlier
\* URL was fetched, and the queue still holds an entry for it
C23_Witness ==
    /\ last.op = "dequeue" /\ last.why = "database"
    /\ last.url \in self.visited
    /\ log.fetched # <<>>
    /\ \E i \in 1..Len(self.queue) : self.queue[i][1] = last.url

-----------------------------------------------------------------------------
(* The order of the frontier in a crawl from the constructor *)

FifoInit ==
    \E seeds \in SeedLists, depth \in 1..MaxDepthBound :
        Constructed(WebCrawler(seeds, <<"foo">>, depth, 0, 300, FALSE, FALSE, {},
                               {}, "", "key1", FALSE),
                    [web |-> LinkedWeb, robots |-> {"allow"}, oversleep |-> {0},
                     max_time |-> 0, max_saves |-> 0, max_signals |-> 0,
                     max_loads |-> 0, listing |-> "asc", db_add |-> {TRUE}],
                    <<>>, 0)

SpecFifo == FifoInit /\ [][CrawlNext]_vars

\* self.queue is an initial segment of q
Extends(q) ==
    Len(q) >= Len(self.queue) /\ \A i \in 1..Len(self.queue) : q[i] = self.queue[i]

\* a step that changes the frontier pops its oldest entry, which is the one
\* the pass then works on, or appends behind the entries it holds
FifoStep ==
    self'.queue # self.queue =>
        \/ /\ self.queue # <<>> /\ self'.queue = Tail(self.queue)
           /\ last'.op = "dequeue"
           /\ <<last'.url, last'.depth>> = Head(self.queue)
        \/ last'.op = "fetch" /\ Extends(self'.queue)

DequeuedAt(d) == last.op = "dequeue" /\ last.depth = d

\* C34: in a crawl started from the constructor, entries leave the frontier in
\* the order they entered it, and the depths of successively dequeued entries
\* never decrease.
C34_FifoLevelOrder ==
    /\ [][FifoStep]_vars
    /\ \A d \in 0..(MaxDepthBound + 1) :
          [](DequeuedAt(d) => [](last.op = "dequeue" => last.depth >= d))

\* a depth-1 link waited behind the second seed and is dequeued after it
C34_Witness ==
    /\ last.op = "dequeue" /\ last.depth = 1
    /\ Len(self.seed_urls) = 2
    /\ \A i \in 1..2 : self.seed_urls[i] \in self.visited
    /\ Len(log.fetched) >= 2
    /\ self.queue # <<>>

-----------------------------------------------------------------------------
(* Termination of the uninterrupted crawl, with and without TF-IDF *)

RunInit ==
    \E seeds \in SeedLists, depth \in 0..MaxDepthBound, tfidf \in BOOLEAN :
        Constructed(WebCrawler(seeds, <<"foo">>, depth, 0, 300, tfidf, FALSE, {},
                               {}, "", "key1", FALSE),
                    [web |-> LinkedWeb, robots |-> {"allow"}, oversleep |-> {0},
                     max_time |-> 0, max_saves |-> 0, max_signals |-> 0,
                     max_loads |-> 0, listing |-> "asc", db_add |-> {TRUE}],
                    <<>>, 0)

\* every fetch and every wait returns: the main thread keeps running
SpecRun == RunInit /\ [][CrawlNext]_vars /\ WF_vars(CrawlNext)

\* the while loop is left with the frontier empty
LoopTerminates == <>(self.queue = <<>> /\ pc \in {"cleanup_save", "finish", "done", "raised"})

\* C39: for every finite link graph, seed list and max_depth >= 0, the
\* uninterrupted crawl empties the frontier and reaches Done.
C39_CrawlTerminates == <>(self.queue = <<>> /\ pc = "done")

-----------------------------------------------------------------------------
(* A crawl long enough for a rescoring pass inside the loop *)

\* http://a.test:1/x ... http://a.test:10/x
LongSeeds == [i \in 1..RecalcEvery |-> Url("a.test", i, <<"/", "x">>, "", "")]

RelevantPage == [ok |-> TRUE, text |-> {"foo", "zzz"}, links |-> <<UB>>]

\* keywords ['foo'], or no keyword and the pattern 'foo'; max_depth 1; either
\* TF-IDF or a database, whose add_crawled_page may raise
LongInit ==
    \E tfidf \in BOOLEAN, by_pattern \in BOOLEAN :
        LET db == ~tfidf IN
        Constructed(WebCrawler(LongSeeds, IF by_pattern THEN <<>> ELSE <<"foo">>, 1, 0,
                               300, tfidf, FALSE, {}, {},
                               IF by_pattern THEN "foo" ELSE "", "key1", db),
                    [web |-> {RelevantPage}, robots |-> {"allow"}, oversleep |-> {0},
                     max_time |-> 0, max_saves |-> 0, max_signals |-> 0,
                     max_loads |-> 0, listing |-> "asc", db_add |-> {TRUE, FALSE}],
                    <<>>, 0)

SpecLong == LongInit /\ [][CrawlNext]_vars

SortedByScore ==
    \A i, j \in 1..Len(self.results) :
        i < j => self.results[i].relevance_score >= self.results[j].relevance_score

\* C28: with TF-IDF active, the 10th relevant document since the last pass
\* triggers a pass that completes within that iteration, and a last pass runs
\* at the end of the crawl if a relevant document is pending; after a pass the
\* counter starts again, the results are sorted by score and the crawl goes on.
C28_RescoringCompletes ==
    self.use_tfidf =>
        /\ pc = "loop" => docs_since_recalc < RecalcEvery
        /\ (last.op = "fetch" /\ last.rescoring) => (~last.raised /\ SortedByScore)
        /\ pc # "raised"

\* the links of a fetched page that the loop has to append: those not visited,
\* at the depth below the page
LinksToAppend(links, visited, depth) ==
    [i \in 1..Len(SelectSeq(links, LAMBDA l : l \notin visited)) |->
        <<SelectSeq(links, LAMBDA l : l \notin visited)[i], depth + 1>>]

FetchAppendsLinks ==
    (pc = "fetch" /\ last'.op = "fetch" /\ last'.page.ok /\ cur[2] < self.max_depth) =>
        self'.queue = self.queue \o LinksToAppend(last'.page.links, self.visited, cur[2])

\* C29: when a page at depth < max_depth is fetched and parsed, each of its
\* links that is not visited is appended at depth + 1 in that iteration, whether
\* or not the page was relevant and whether or not recording or rescoring its
\* result succeeded.
C29_LinksAlwaysEnqueued ==
    [][FetchAppendsLinks]_vars

-----------------------------------------------------------------------------
(* Shutdown: the crawl with its timer thread and interrupt signals *)

MaxSignals == 2         \* at most MaxSignals interrupts are delivered
MaxAutoSaves == 1       \* at most MaxAutoSaves timer expiries

SmallWeb ==
    {[ok |-> FALSE, text |-> {}, links |-> <<>>],
     [ok |-> TRUE, text |-> {"foo", "zzz"}, links |-> <<UB>>]}

ShutdownInit ==
    \E depth \in 0..1, tfidf \in BOOLEAN :
        Constructed(WebCrawler(<<UA1>>, <<"foo">>, depth, 0, 300, tfidf, FALSE, {},
                               {}, "", "key1", FALSE),
                    [web |-> SmallWeb, robots |-> {"allow"}, oversleep |-> {0},
                     max_time |-> 1, max_saves |-> MaxAutoSaves,
                     max_signals |-> MaxSignals, max_loads |-> 0, listing |-> "asc", db_add |-> {TRUE}],
                    <<>>, 0)

ShutdownNext ==
    \/ CrawlNext
    \/ Tick
    \/ Signal
    \/ HandlerCleanup
    \/ HandlerSave
    \/ HandlerExit
    \/ TimerFire
    \/ TimerSave
    \/ TimerBuild
    \/ TimerWrite
    \/ TimerSchedule
    \/ TimerStart

SpecShutdown == ShutdownInit /\ [][ShutdownNext]_vars

\* C4: whether the queue is exhausted or interrupts are delivered at arbitrary
\* points, the shutdown sequence performs exactly one final checkpoint save
\* before the process terminates; a repeated interrupt causes no second one.
C4_ExactlyOneFinalSave ==
    /\ log.final_saves <= 1
    /\ pc \in {"done", "raised", "exited"} => log.final_calls = 1

\* C11: once crawl_in_progress has been set to false no auto checkpoint is
\* written, in every interleaving of the timer thread with the main thread.
C11_NoAutoSaveWhenStopped ==
    (last.op = "save" /\ last.kind = "auto" /\ last.path # <<>>) => last.in_progress

\* the main thread is inside an iteration: it has dequeued cur and not yet
\* marked it ("rate"), or has marked it and its fetch and link enqueueing are
\* still to come ("fetch")
MidIteration == pc \in {"rate", "fetch"}

\* C21: every checkpoint written during a crawl, auto or final, holds the state
\* of an iteration boundary: none is written while a URL is dequeued and not
\* yet visited, or visited with its fetch and enqueueing pending.
C21_CheckpointAtBoundary ==
    (last.op = "save" /\ last.kind \in {"auto", "final"} /\ last.path # <<>>) =>
        ~MidIteration

\* crawl() has ended: it returned, it raised, or the handler ended the process
Terminated == pc \in {"done", "raised", "exited"}

\* relevant documents were found since the last rescoring pass, TF-IDF active
PendingRescoring == self.use_tfidf /\ docs_since_recalc > 0

\* C24: on queue exhaustion and on interrupt alike, termination saves the final
\* checkpoint, then runs the pending rescoring pass, then ends the storage
\* session, and only then is done.
C24_TerminationSteps ==
    Terminated =>
        /\ log.final_calls >= 1
        /\ PendingRescoring => log.rescored
        /\ self.db_manager => log.session_ended

\* the main thread has run _cleanup to its end and the process lives on
CleanupDone == pc \in {"finish", "done", "raised"}

\* C25: once cleanup has completed no checkpoint timer is pending, and none is
\* started later, however a running timer callback interleaves with cleanup.
C25_NoTimerAfterCleanup ==
    CleanupDone => \A i \in 1..Len(timers) : timers[i] # "pending"

\* C27: two distinct successful saves of a session write to distinct paths: no
\* save overwrites the file an earlier save wrote, whatever their kinds and
\* times.
C27_SavesNeverOverwrite ==
    last.op = "save" => ~last.overwrote

-----------------------------------------------------------------------------
(* The checkpoint timer during a crawl that is not interrupted *)

MaxFirings == 2         \* at most MaxFirings timer expiries and final saves

TimerInit ==
    \E depth \in 0..1 :
        Constructed(WebCrawler(<<UA1>>, <<"foo">>, depth, 0, 300, FALSE, FALSE, {},
                               {}, "", "key1", FALSE),
                    [web |-> SmallWeb, robots |-> {"allow"}, oversleep |-> {0},
                     max_time |-> 0, max_saves |-> MaxFirings, max_signals |-> 0,
                     max_loads |-> 0, listing |-> "asc", db_add |-> {TRUE}],
                    <<>>, 0)

TimerNext ==
    \/ CrawlNext
    \/ TimerFire
    \/ TimerSave
    \/ TimerBuild
    \/ TimerWrite
    \/ TimerSchedule
    \/ TimerStart

\* a timer thread that has started its callback runs it to the end
SpecTimer == TimerInit /\ [][TimerNext]_vars /\ WF_vars(TimerSave) /\ WF_vars(TimerBuild) /\ WF_vars(TimerWrite) /\ WF_vars(TimerSchedule) /\ WF_vars(TimerStart)

InCallback(state) == state \in {"saving", "building", "writing", "scheduling", "starting"}

PendingTimers(ts) == {i \in 1..Len(ts) : ts[i] = "pending"}

\* a callback reaches the scheduling call only from the save attempt, or from
\* the suppression test of a crawl that has stopped; a callback ends either by
\* starting one new timer or, the crawl having stopped, with none
CallbackStep ==
    \A i \in 1..Len(timers) :
        /\ (timers[i] # "scheduling" /\ timers'[i] = "scheduling") =>
              \/ timers[i] = "writing" /\ last'.op = "save" /\ last'.kind = "auto"
              \/ timers[i] = "saving" /\ ~self.crawl_in_progress
        /\ (InCallback(timers[i]) /\ timers'[i] = "fired") =>
              \/ /\ timers[i] = "starting"
                 /\ Len(timers') = Len(timers) + 1
                 /\ PendingTimers(timers') = PendingTimers(timers) \cup {Len(timers')}
              \/ /\ timers[i] = "scheduling"
                 /\ ~self.crawl_in_progress
                 /\ Len(timers') = Len(timers)

\* C26: while the crawl runs, a timer that fires makes a save attempt and then
\* schedules exactly one new timer, also when the save fails; at most one timer
\* is pending at any time.
C26_TimerRecurs ==
    /\ [][CallbackStep]_vars
    /\ [](Cardinality(PendingTimers(timers)) <= 1)
    /\ \A i \in 1..(MaxFirings + 1) :
          (Len(timers) >= i /\ timers[i] = "saving") ~> (Len(timers) >= i /\ timers[i] = "fired")

\* the second timer fired during the crawl after the save of the first had
\* failed, its own save failed too, and a third timer is pending
C26_Witness ==
    /\ self.crawl_in_progress
    /\ Len(timers) = 3 /\ timers[1] = "fired" /\ timers[2] = "fired" /\ timers[3] = "pending"
    /\ files = <<>>
    /\ log.saves = 2

-----------------------------------------------------------------------------
(* Checkpoints: saves and loads around a small crawl *)

MaxSaves == 1           \* at most MaxSaves timer expiries and manual saves
MaxLoads == 1           \* at most MaxLoads load_checkpoint calls

\* a crawler of another session, whose snapshot a file in the directory holds
OtherCrawler ==
    [WebCrawler(<<UB>>, <<"bar">>, 2, 2, 300, FALSE, FALSE, {}, {}, "", "key2", FALSE)
        EXCEPT !.visited = {UB},
               !.queue = <<<<UA2, 1>>>>,
               !.results = <<Result(UB, 0, {"bar"}, 0)>>,
               !.document_frequencies = ("bar" :> 1),
               !.total_documents = 1]

Restrict(f, keys) == [k \in DOMAIN f \cap keys |-> f[k]]

ConfigKeys == {"keywords", "seed_urls", "max_depth", "delay"}
StateKeys == {"visited", "queue", "results", "document_frequencies", "total_documents"}

\* files found in the checkpoint directory that this session did not write: not
\* JSON, a JSON array, and objects with members missing or of the wrong type
ForeignFiles ==
    LET full == CheckpointData(OtherCrawler, 0)
        file(parse, data, illtyped) ==
            [parse |-> parse, data |-> data, illtyped |-> illtyped, mtime |-> 0,
             by |-> "foreign", origin |-> OtherCrawler]
    IN  {file("garbage", <<>>, {}), file("array", <<>>, {})} \cup
        {file("object", Restrict(full, keys), {}) :
            keys \in {DOMAIN full, DOMAIN full \ StateKeys, ConfigKeys, {}}} \cup
        {file("object", full, {k}) : k \in {"visited", "queue", "document_frequencies"}}

ForeignPath == <<"other", 0>>

CkptInit ==
    \E key \in {"key1", "key2"}, f \in ForeignFiles :
        Constructed(WebCrawler(<<UA1>>, <<"foo">>, 1, 0, 300, FALSE, FALSE, {},
                               {}, "", key, FALSE),
                    [web |-> SmallWeb, robots |-> {"allow"}, oversleep |-> {0},
                     max_time |-> 0, max_saves |-> MaxSaves, max_signals |-> 0,
                     max_loads |-> MaxLoads, listing |-> "asc", db_add |-> {TRUE}],
                    (ForeignPath :> f), 0)

CkptNext ==
    \/ CrawlNext
    \/ TimerFire
    \/ TimerSave
    \/ TimerBuild
    \/ TimerWrite
    \/ TimerSchedule
    \/ TimerStart
    \/ ManualSave
    \/ LoadCheckpoint

SpecCkpt == CkptInit /\ [][CkptNext]_vars


\* C5: a successful save followed by a successful load of the written file
\* yields the frontier (same entries, same order), the visited set, the result
\* list, the document-frequency table and the total-documents counter of save
\* time; nothing of the pre-load frontier, visited set or results remains.
C5_RoundTrip ==
    (last.op = "load" /\ last.ok /\ files[last.path].by = "save") =>
        LET o == files[last.path].origin IN
        /\ self.queue = o.queue
        /\ self.visited = o.visited
        /\ self.results = o.results
        /\ self.document_frequencies = o.document_frequencies
        /\ self.total_documents = o.total_documents

\* a checkpoint written mid-crawl was loaded over a different later state
C5_Witness ==
    /\ last.op = "load" /\ last.ok /\ files[last.path].by = "save"
    /\ self.queue # <<>> /\ self.visited # {}
    /\ last.before.queue # self.queue
    /\ ~(last.before.visited \subseteq self.visited)
    /\ last.before.results # self.results

\* C6: whenever load_checkpoint returns False, every field of the crawler
\* equals its value before the call: no outcome replaces only some fields.
C6_FailedLoadLeavesState ==
    (last.op = "load" /\ ~last.ok) => self = last.before

\* C10: two crawler states that differ only in the API key write identical
\* checkpoints, no checkpoint holds the key, and a load never changes the key.
C10_KeyNeverSaved ==
    /\ last.op = "save" =>
          /\ DOMAIN files = DOMAIN last.twin_files
          /\ \A p \in DOMAIN files : files[p].data = last.twin_files[p].data
    /\ \A p \in DOMAIN files :
          files[p].by = "save" => "gemini_api_key" \notin DOMAIN files[p].data
    /\ last.op = "load" => self.gemini_api_key = last.before.gemini_api_key

\* a checkpoint was written by a crawler holding a key and then loaded by it
C10_Witness ==
    /\ last.op = "load" /\ last.ok /\ files[last.path].by = "save"
    /\ self.gemini_api_key = "key1"
    /\ files[last.path].origin.gemini_api_key = "key1"
    /\ files[last.path].origin.visited # {}

\* the members of a snapshot that load_checkpoint reads
SnapshotFields == DOMAIN CheckpointData(self, 0) \ {"timestamp"}

\* C35 as stated: after a successful load, every field whose member the
\* snapshot lacks holds the value the crawler had before the load; this for
\* the state fields (visited, queue, results, document_frequencies,
\* total_documents) as for the configuration fields.
C35_AbsentFieldsKeepLive ==
    (last.op = "load" /\ last.ok) =>
        \A k \in SnapshotFields \ DOMAIN files[last.path].data :
            self[k] = last.before[k]

\* the value a state field has when nothing was ever crawled or scored
EmptyState ==
    [visited |-> {}, queue |-> <<>>, results |-> <<>>,
     document_frequencies |-> <<>>, total_documents |-> 0]

\* C35 (amended): after a successful load, a configuration field whose member
\* the snapshot lacks holds the value the crawler had before the load, and a
\* state field (visited, queue, results, document_frequencies,
\* total_documents) whose member the snapshot lacks is empty or zero.
C35_AbsentFieldsFallBack ==
    (last.op = "load" /\ last.ok) =>
        \A k \in SnapshotFields \ DOMAIN files[last.path].data :
            self[k] = IF k \in DOMAIN EmptyState THEN EmptyState[k] ELSE last.before[k]

\* a snapshot holding the four first members only was loaded into a crawler
\* with its seed queued: the queue is empty, the other settings are its own
C35_Witness ==
    /\ last.op = "load" /\ last.ok
    /\ DOMAIN files[last.path].data = {"keywords", "seed_urls", "max_depth", "delay"}
    /\ last.before.queue # <<>> /\ self.queue = <<>>
    /\ self.keywords = OtherCrawler.keywords
    /\ self.user_agent = last.before.user_agent

\* the step is a call of _save_checkpoint whose open or json.dump raised
FailedWrite == log'.saves = log.saves + 1 /\ last'.op = "save" /\ ~last'.io_ok

\* a thread of the timer goes from the write to _schedule_checkpoint
CallbackGoesOn ==
    \E i \in 1..Len(timers) : timers[i] = "writing" /\ timers'[i] = "scheduling"

\* a save that cannot write returns None and leaves the crawler object, the
\* count of new documents and the position of the main thread as they were:
\* the loop goes on (an auto save) or the shutdown goes on (a final save); the
\* callback of an auto save goes on to _schedule_checkpoint
FailedWriteStep ==
    FailedWrite =>
        /\ last'.path = <<>>
        /\ self' = self /\ docs_since_recalc' = docs_since_recalc /\ cur' = cur
        /\ last'.kind = "auto" => (pc' = pc /\ CallbackGoesOn)
        /\ last'.kind = "final" => (pc = "cleanup_save" /\ pc' = "finish")
        /\ last'.kind = "manual" => pc' = pc

\* C36: a checkpoint write that fails with an I/O error makes the save return
\* None, leaves frontier, visited set, results and relevance state unchanged,
\* lets the crawl loop go on, and after an auto save the callback still goes
\* on to reschedule the timer.
C36_FailedSaveHarmless == [][FailedWriteStep]_vars

\* an auto save failed in the middle of a pass of the loop and its callback
\* stands before _schedule_checkpoint
C36_Witness ==
    /\ last.op = "save" /\ last.kind = "auto" /\ ~last.io_ok /\ last.path = <<>>
    /\ pc \in {"rate", "fetch"} /\ self.crawl_in_progress
    /\ \E i \in 1..Len(timers) : timers[i] = "scheduling"

\* C40: in every state of a session each URL has at most one result record,
\* and the URL of every result record is in the visited set.
C40_ResultsVisitedOnce ==
    /\ \A i, j \in 1..Len(self.results) :
          self.results[i].url = self.results[j].url => i = j
    /\ \A i \in 1..Len(self.results) : self.results[i].url \in self.visited

-----------------------------------------------------------------------------
(* The robots cache during a crawl with saves, loads and the timer thread *)

RobotsInit ==
    \E seeds \in {<<UA1, UA2>>, <<UA1, UB, UA2>>} :
        Constructed(WebCrawler(seeds, <<"foo">>, 0, 0, 300, FALSE, FALSE, {},
                               {}, "", "key1", FALSE),
                    [web |-> SmallWeb, robots |-> RobotsOutcomes, oversleep |-> {0},
                     max_time |-> 0, max_saves |-> MaxSaves, max_signals |-> 0,
                     max_loads |-> MaxLoads, listing |-> "asc", db_add |-> {TRUE}],
                    <<>>, 0)

SpecRobots == RobotsInit /\ [][CkptNext]_vars

\* the step is a pass of the loop that asked _can_fetch about a cached domain
CachedLookup ==
    /\ self.queue # <<>> /\ self'.queue = Tail(self.queue)
    /\ last'.op = "dequeue" /\ last'.consulted
    /\ Netloc(last'.url) \in DOMAIN self.robot_parsers

\* no step replaces or removes a cache entry, and a lookup of a cached domain
\* returns the cached parser
CacheKept ==
    /\ \A d \in DOMAIN self.robot_parsers :
          /\ d \in DOMAIN self'.robot_parsers
          /\ self'.robot_parsers[d] = self.robot_parsers[d]
    /\ CachedLookup => last'.parser = self.robot_parsers[Netloc(last'.url)]

\* C33: robots.txt is read at most once per domain and session: after the
\* first lookup for a domain its cache entry, ruleset or permissive fallback,
\* is never replaced or removed, and later lookups return that entry.
C33_RobotsCachedOnce == [][CacheKept]_vars

\* a second URL of a domain was let through by the fallback entry its first
\* lookup left
C33_Witness ==
    /\ last.op = "dequeue" /\ last.url = UA2 /\ last.consulted
    /\ UA1 \in self.visited
    /\ Netloc(UA1) \in log.robots_failed
    /\ last.parser = PermissiveParser /\ ~last.robots_failed

-----------------------------------------------------------------------------
(* The checkpoint interval through a session with saves and loads *)

RequestedIntervals == {-1, 0, 59, 60, 61, 3599, 3600, 3601, 86400}

\* a snapshot of another session to which an interval outside the limits was
\* added by hand
IntervalFile ==
    JsonFile(("checkpoint_interval" :> 5) @@ CheckpointData(OtherCrawler, 0),
             {}, 0, "foreign", OtherCrawler)

\* the environment remembers the interval the caller asked for
IntervalInit ==
    \E requested \in RequestedIntervals :
        Constructed(WebCrawler(<<UA1>>, <<"foo">>, 1, 0, requested, FALSE, FALSE, {},
                               {}, "", "key1", FALSE),
                    [web |-> SmallWeb, robots |-> {"allow"}, oversleep |-> {0},
                     max_time |-> 0, max_saves |-> MaxSaves, max_signals |-> 0,
                     max_loads |-> MaxLoads, listing |-> "asc", db_add |-> {TRUE},
                     requested |-> requested],
                    (ForeignPath :> IntervalFile), 0)

SpecInterval == IntervalInit /\ [][CkptNext]_vars

\* C38: the effective checkpoint interval is max(60, min(3600, requested)) for
\* every requested integer, and it stays within [60, 3600] for the whole
\* session, after a checkpoint was loaded too.
C38_IntervalClamped ==
    LET low == IF env.requested < 3600 THEN env.requested ELSE 3600
    IN  /\ self.checkpoint_interval = IF low > 60 THEN low ELSE 60
        /\ self.checkpoint_interval >= 60
        /\ self.checkpoint_interval <= 3600

\* a day was asked for, a snapshot naming 5 seconds was loaded, a crawl ran
\* with its timer, and the interval is one hour
C38_Witness ==
    /\ env.requested = 86400 /\ self.checkpoint_interval = 3600
    /\ log.loads > 0 /\ self.visited = OtherCrawler.visited
    /\ pc = "loop" /\ timers # <<>>

-----------------------------------------------------------------------------
(* Resumed crawls: a checkpoint with scored results is loaded, then crawl() *)

\* the crawler whose snapshot the checkpoint holds: two results, the lower
\* score first, one of them still carrying its content
PastCrawler(tfidf) ==
    [WebCrawler(<<UA1>>, <<"foo">>, 1, 0, 300, tfidf, FALSE, {}, {}, "", "key2", FALSE)
        EXCEPT !.visited = {UA2, UB},
               !.queue = <<<<UA1, 0>>>>,
               !.results = <<[Result(UA2, 0, {}, 0) EXCEPT !.relevance_score = 500,
                                                          !.has_content = FALSE],
                             Result(UB, 1, {"foo"}, 0)>>]

PlainPage == [ok |-> TRUE, text |-> {"zzz"}, links |-> <<>>]

ResumeInit ==
    \E tfidf \in BOOLEAN, saved_tfidf \in BOOLEAN, depth \in 0..1 :
        Constructed(WebCrawler(<<UA1>>, <<"foo">>, depth, 0, 300, tfidf, FALSE, {},
                               {}, "", "key1", FALSE),
                    [web |-> SmallWeb \cup {PlainPage}, robots |-> {"allow"},
                     oversleep |-> {0}, max_time |-> 0, max_saves |-> 0,
                     max_signals |-> 0, max_loads |-> MaxLoads, listing |-> "asc", db_add |-> {TRUE}],
                    (ForeignPath :> JsonFile(CheckpointData(PastCrawler(saved_tfidf), 0),
                                             {}, 0, "foreign", PastCrawler(saved_tfidf))),
                    0)

ResumeNext ==
    \/ CrawlNext
    \/ LoadCheckpoint

SpecResume == ResumeInit /\ [][ResumeNext]_vars

\* with TF-IDF off, a step of a running crawl leaves the recorded results where
\* they are and adds at most the page being processed, at the end
InsertionOrderKept ==
    (~self.use_tfidf /\ pc \notin {"idle", "done"}) =>
        /\ Len(self'.results) \in {Len(self.results), Len(self.results) + 1}
        /\ \A i \in 1..Len(self.results) :
              /\ self'.results[i].url = self.results[i].url
              /\ self'.results[i].relevance_score = self.results[i].relevance_score
        /\ Len(self'.results) = Len(self.results) + 1 =>
              pc = "fetch" /\ self'.results[Len(self'.results)].url = cur[1]

\* C17: when crawl() completes with TF-IDF active the returned list is sorted
\* by relevance_score, non-increasing; with TF-IDF inactive the results are in
\* the order in which their pages were found relevant.
C17_ResultOrder ==
    /\ []((last.op = "finish" /\ pc = "done" /\ self.use_tfidf) => SortedByScore)
    /\ [][InsertionOrderKept]_vars

\* a crawl resumed from a checkpoint whose results were in ascending order
\* completed with TF-IDF active and returned them reordered
C17_Witness ==
    /\ last.op = "finish" /\ pc = "done" /\ self.use_tfidf
    /\ log.loads = 1 /\ Len(self.results) = 2
    /\ self.results[1].relevance_score > self.results[2].relevance_score
    /\ self.results[1].url = files[ForeignPath].data.results[2].url

-----------------------------------------------------------------------------
(* Retention: saves of every kind into directories left by earlier sessions *)

MaxRetainSaves == 3     \* at most MaxRetainSaves calls of _save_checkpoint
MaxRetainTime == 2      \* the clock runs from 0 to MaxRetainTime

\* a checkpoint of an earlier session: crawler_checkpoint_{kind}_{ts}.json
OldFile(mtime) ==
    JsonFile(CheckpointData(OtherCrawler, mtime), {}, mtime, "foreign", OtherCrawler)

\* a directory: stamps[kind] holds <<ts, mtime>> of every file of the kind
OldDir(stamps) ==
    [p \in UNION {{<<kind, x[1]>> : x \in stamps[kind]} : kind \in DOMAIN stamps} |->
        OldFile((CHOOSE x \in stamps[p[1]] : x[1] = p[2])[2])]

\* directories a session can find: empty; full, with distinct and with tied
\* modification times; over-full (files copied in, or a sweep that failed)
OldDirs ==
    {<<>>,
     OldDir([auto |-> {<<0 - i, 0 - i>> : i \in 1..5}, final |-> {<<0 - 1, 0 - 1>>},
             manual |-> {<<0 - 9, 0 - 9>>}]),
     OldDir([auto |-> {<<0 - i, 0 - 1>> : i \in 1..5}, final |-> {<<0 - 1, 0 - 1>>},
             manual |-> {<<0 - 9, 0 - 9>>}]),
     OldDir([auto |-> {<<0 - i, 0 - ((i + 1) \div 2)>> : i \in 1..6},
             final |-> {<<0 - 1, 0 - 2>>, <<0 - 2, 0 - 2>>},
             manual |-> {<<0 - 9, 0 - 9>>, <<0 - 8, 0 - 8>>}])}

RetainInit ==
    \E dir \in OldDirs, listing \in {"asc", "desc"} :
        Constructed(WebCrawler(<<UA1>>, <<"foo">>, 1, 0, 300, FALSE, FALSE, {},
                               {}, "", "key1", FALSE),
                    [web |-> SmallWeb, robots |-> {"allow"}, oversleep |-> {0},
                     max_time |-> MaxRetainTime, max_saves |-> MaxRetainSaves,
                     max_signals |-> 0, max_loads |-> 0, listing |-> listing, db_add |-> {TRUE}],
                    dir, 0)

\* a call self._save_checkpoint(kind), before or during a crawl
CallSave ==
    /\ log.saves < env.max_saves
    /\ \E kind \in {"auto", "manual", "final"}, io_ok \in BOOLEAN : DoSave(kind, io_ok)
    /\ UNCHANGED <<self, pc, cur, docs_since_recalc, now, timers, hpc, env>>

RetainNext ==
    \/ StartCrawl
    \/ Tick
    \/ CallSave

SpecRetain == RetainInit /\ [][RetainNext]_vars

RetainedCounts ==
    (last.op = "save" /\ last.path # <<>>) =>
        /\ Cardinality(PathsOfKind(files, "auto")) <= 5
        /\ Cardinality(PathsOfKind(files, "final")) <= 1

SweepKeepsNewest ==
    (log'.saves = log.saves + 1 /\ last'.path # <<>>) =>
        /\ last'.path \in DOMAIN files'
        /\ \A k \in DOMAIN files' \ {last'.path} : k \in DOMAIN files /\ files'[k] = files[k]
        /\ \A r \in DOMAIN files \ DOMAIN files' :
              /\ r[1] \in {"auto", "final"}
              /\ \A k \in DOMAIN files' : k[1] = r[1] => files'[k].mtime >= files[r].mtime

\* C12: after every successful save the directory holds at most 5 auto and at
\* most 1 final checkpoint, those kept are the most recently modified of their
\* kind, and the sweep deletes no manual checkpoint.
C12_Retention == [](RetainedCounts) /\ [][SweepKeepsNewest]_vars

\* an auto save pushed an older auto checkpoint out while a manual checkpoint
\* older than every auto checkpoint stayed
C12_Witness ==
    /\ last.op = "save" /\ last.kind = "auto" /\ last.path \in DOMAIN files
    /\ Cardinality({p \in PathsOfKind(files, "auto") : files[p].by = "foreign"}) = 4
    /\ Cardinality(PathsOfKind(files, "auto")) = 5
    /\ \E m \in PathsOfKind(files, "manual") :
          \A a \in PathsOfKind(files, "auto") : files[m].mtime < files[a].mtime

-----------------------------------------------------------------------------
(* The rate limiter alone: calls at arbitrary arrival times *)

MaxDelay == 2           \* delay is drawn from 0..MaxDelay
MaxTurns == 3           \* at most MaxTurns calls of the rate limiter
MaxArrival == 4         \* the clock is advanced between calls up to MaxArrival

NoDomain == <<"", 0>>

RateInit ==
    \E delay \in 0..MaxDelay :
        Constructed(WebCrawler(<<UA1>>, <<"foo">>, 1, delay, 300, FALSE, FALSE, {},
                               {}, "", "key1", FALSE),
                    [web |-> SmallWeb, robots |-> {"allow"}, oversleep |-> {0, 1},
                     max_time |-> MaxArrival, max_saves |-> 0, max_signals |-> 0,
                     max_loads |-> 0, listing |-> "asc", db_add |-> {TRUE}],
                    <<>>, 0)

\* a call _respect_domain_rate_limits(url); url_ok: the URL is one urlparse
\* accepts (one it rejects has no domain: its turn is logged under NoDomain)
AwaitTurn ==
    /\ Len(log.turns) < MaxTurns
    /\ \E url \in {UA1, UB}, extra \in env.oversleep, url_ok \in BOOLEAN :
        LET r == IF url_ok THEN _respect_domain_rate_limits(self, url, now, extra)
                 ELSE RateLimitFallback(self, now, extra)
        IN
        /\ self' = [self EXCEPT !.domain_access_times = r[1]]
        /\ now' = r[2]
        /\ log' = [log EXCEPT !.turns =
                      Append(@, [domain |-> IF url_ok THEN Netloc(url) ELSE NoDomain,
                                 arrived |-> now, done |-> r[2]])]
        /\ last' = [op |-> "await", url |-> url, arrived |-> now, done |-> r[2],
                    url_ok |-> url_ok]
    /\ UNCHANGED <<pc, cur, docs_since_recalc, files, timers, hpc, env>>

RateNext ==
    \/ Tick
    \/ AwaitTurn

SpecRate == RateInit /\ [][RateNext]_vars

\* C7: of two consecutive completions of the rate limiter for the same domain,
\* the second comes at least `delay` after the first, for every delay >= 0 and
\* every arrival time of the second call.
C7_Spacing ==
    \A i, j \in 1..Len(log.turns) :
        (i < j /\ log.turns[i].domain = log.turns[j].domain) =>
            log.turns[j].done - log.turns[i].done >= self.delay

\* a second call for a domain arrived early and was made to wait
C7_Witness ==
    \E i, j \in 1..Len(log.turns) :
        /\ i < j /\ log.turns[i].domain = log.turns[j].domain
        /\ self.delay > 0
        /\ log.turns[j].arrived > log.turns[i].done
        /\ log.turns[j].arrived - log.turns[i].done < self.delay
        /\ log.turns[j].done > log.turns[j].arrived


-----------------------------------------------------------------------------
(* Two domains: the rate limiter and the robots check called in any order *)

DomainsInit ==
    \E delay \in {1, MaxDelay} :
        Constructed(WebCrawler(<<UA1>>, <<"foo">>, 1, delay, 300, FALSE, FALSE, {},
                               {}, "", "key1", FALSE),
                    [web |-> SmallWeb, robots |-> {"raise", "deny"}, oversleep |-> {0, 1},
                     max_time |-> MaxArrival, max_saves |-> 0, max_signals |-> 0,
                     max_loads |-> 0, listing |-> "asc", db_add |-> {TRUE}],
                    <<>>, 0)

\* a call self._can_fetch(url)
CanFetch ==
    /\ \E url \in {UA1, UB}, outcome \in env.robots :
        LET got == _get_robot_parser(self.robot_parsers, url, outcome) IN
        /\ self' = [self EXCEPT !.robot_parsers = got[2]]
        /\ last' = [op |-> "can_fetch", url |-> url, verdict |-> _can_fetch(got[1], url)]
    /\ UNCHANGED <<pc, cur, docs_since_recalc, now, files, timers, hpc, log, env>>

DomainsNext ==
    \/ Tick
    \/ AwaitTurn
    \/ CanFetch

SpecDomains == DomainsInit /\ [][DomainsNext]_vars

\* table[d], or "none" where the table has no entry for d
EntryOf(table, d) == IF d \in DOMAIN table THEN <<table[d]>> ELSE <<>>

\* the step is a call of the limiter or of the robots check
DomainCall ==
    /\ last'.op \in {"await", "can_fetch"}
    /\ last' # last \/ self' # self \/ log' # log

\* the call leaves every other domain's entries as they were
OtherDomainsKept ==
    \A d \in {Netloc(UA1), Netloc(UB)} \ {Netloc(last'.url)} :
        /\ EntryOf(self'.domain_access_times, d) = EntryOf(self.domain_access_times, d)
        /\ EntryOf(self'.robot_parsers, d) = EntryOf(self.robot_parsers, d)

\* the time the call of the limiter took is the rest of the delay since the
\* last access to its own domain, plus what time.sleep overslept
WaitIsOwn ==
    LET d == Netloc(last'.url)
        rest == IF d \in DOMAIN self.domain_access_times /\
                   now - self.domain_access_times[d] < self.delay
                THEN self.delay - (now - self.domain_access_times[d])
                ELSE 0
    IN  IF rest > 0
        THEN (now' - now) - rest \in env.oversleep
        ELSE now' = now

DomainsStep ==
    DomainCall =>
        /\ OtherDomainsKept
        /\ (last'.op = "await" /\ last'.url_ok /\ log' # log) => WaitIsOwn

\* C37: a call of the rate limiter or of the robots check for a URL of domain d
\* leaves the last-access time and the robots entry of every other domain
\* unchanged, and the wait for d is computed from d's own last access alone.
C37_DomainsIndependent == [][DomainsStep]_vars

\* a request to one domain went through at once although the other domain had
\* been accessed less than `delay` before, and both domains keep their entries
C37_Witness ==
    /\ last.op = "await" /\ last.url = UB /\ last.url_ok
    /\ last.done = last.arrived
    /\ Netloc(UA1) \in DOMAIN self.domain_access_times
    /\ now - self.domain_access_times[Netloc(UA1)] < self.delay
    /\ Netloc(UA1) \in DOMAIN self.robot_parsers
    /\ Netloc(UB) \notin DOMAIN self.robot_parsers

-----------------------------------------------------------------------------
(* Relevance alone: every keyword list, every pipeline setting, every text *)

MaxKeywords == 2        \* a keyword list has at most MaxKeywords keywords

KeywordChoices == {"foo", "will", "foo bar", "qux"}
RawWords == {"foo", "FOO", "foos", "will", "wills", "bar"}

RelInit ==
    \E keywords \in SeqsUpTo(KeywordChoices, MaxKeywords),
       stemming \in BOOLEAN, lemmatization \in BOOLEAN, stopwords \in BOOLEAN :
        Constructed([WebCrawler(<<UA1>>, keywords, 1, 0, 300, FALSE, FALSE, {},
                                {}, "", "key1", FALSE)
                        EXCEPT !.use_stemming = stemming,
                               !.use_lemmatization = lemmatization,
                               !.remove_stopwords = stopwords],
                    [web |-> SmallWeb, robots |-> {"allow"}, oversleep |-> {0},
                     max_time |-> 0, max_saves |-> 0, max_signals |-> 0,
                     max_loads |-> 0, listing |-> "asc", db_add |-> {TRUE}],
                    <<>>, 0)

\* a call self._is_relevant(content) on a text with the given words
CheckRelevance ==
    /\ last.op = "init"
    /\ \E text \in SUBSET RawWords :
        last' = [op |-> "relevance", text |-> text, verdict |-> _is_relevant(self, text)]
    /\ UNCHANGED <<self, pc, cur, docs_since_recalc, now, files, timers, hpc, log, env>>

RelNext ==
    \/ CheckRelevance

SpecRel == RelInit /\ [][RelNext]_vars

\* C15 as stated: a page is relevant iff the token set of some keyword, taken
\* through the same pipeline as the page, meets the page's token set.
C15_AnyKeywordAsStated ==
    last.op = "relevance" =>
        (last.verdict <=>
            \E i \in 1..Len(self.keywords) :
                process_text(self, Tokenize(self.keywords[i]))
                    \cap process_text(self, last.text) # {})

\* C15 (amended): a page is relevant iff for some keyword the keyword's token
\* set, or the lower-cased keyword itself where the pipeline leaves the keyword
\* no token, meets the page's token set; one matching keyword is enough.
C15_AnyKeyword ==
    last.op = "relevance" =>
        (last.verdict <=>
            \E i \in 1..Len(self.keywords) :
                LET piped == process_text(self, Tokenize(self.keywords[i]))
                    tokens == IF piped = {} THEN {self.keywords[i]} ELSE piped
                IN  tokens \cap process_text(self, last.text) # {})

\* of two keywords only one matched, through stemming, and the page is relevant
C15_Witness ==
    /\ last.op = "relevance" /\ last.verdict
    /\ self.keywords = <<"qux", "foo">>
    /\ last.text = {"foos"}
    /\ self.use_stemming

-----------------------------------------------------------------------------
(* The regex strategy alone: every pattern, every keyword list, every text *)

PatternChoices == {"foo", "FOO", "z*"}

PatternInit ==
    \E keywords \in SeqsUpTo(KeywordChoices, MaxKeywords),
       pattern \in PatternChoices, tfidf \in BOOLEAN :
        Constructed(WebCrawler(<<UA1>>, keywords, 1, 0, 300, tfidf, FALSE, {},
                               {}, pattern, "key1", FALSE),
                    [web |-> SmallWeb, robots |-> {"allow"}, oversleep |-> {0},
                     max_time |-> 0, max_saves |-> 0, max_signals |-> 0,
                     max_loads |-> 0, listing |-> "asc", db_add |-> {TRUE}],
                    <<>>, 0)

\* relevance_result = self._is_relevant(text_content, url) and the unpacking
\* that follows it, on a text with the given words
CheckPattern ==
    /\ last.op = "init"
    /\ \E text \in SUBSET RawWords :
        last' = [op |-> "pattern", text |-> text,
                 result |-> RelevanceResult(self, text)]
    /\ UNCHANGED <<self, pc, cur, docs_since_recalc, now, files, timers, hpc, log, env>>

PatternNext ==
    \/ CheckPattern

SpecPattern == PatternInit /\ [][PatternNext]_vars

\* the configured pattern matches the last text, letter case ignored
PatternMatchesText ==
    \/ self.regex_pattern = "z*"
    \/ \E w \in last.text : SubstringOf(Lower(self.regex_pattern), Lower(w))

\* C32 as stated: with a pattern configured, a page is relevant iff the
\* pattern matches its text case-insensitively, for every text, the empty
\* text included; the score is 1.0 on a match and 0.0 otherwise.
C32_PatternDecidesAsStated ==
    last.op = "pattern" =>
        /\ last.result.is_relevant <=> PatternMatchesText
        /\ last.result.relevance_score = IF PatternMatchesText THEN 1000 ELSE 0

\* C32 (amended): with a pattern configured, a page is relevant iff its text
\* is not empty and the pattern matches it case-insensitively, whatever the
\* keyword list; the score is 1.0 for a relevant page and 0.0 otherwise.
C32_PatternDecides ==
    last.op = "pattern" =>
        /\ last.result.is_relevant <=> (last.text # {} /\ PatternMatchesText)
        /\ last.result.relevance_score = IF last.result.is_relevant THEN 1000 ELSE 0

\* a lower-case pattern found in an upper-case text that holds no keyword
C32_Witness ==
    /\ last.op = "pattern" /\ last.result.is_relevant
    /\ self.regex_pattern = "foo" /\ last.text = {"FOO"}
    /\ self.keywords = <<"qux">>
    /\ last.result.relevance_score = 1000

-----------------------------------------------------------------------------
(* The scorer alone: every keyword list, every short text *)

MaxTextLen == 2         \* a scored text has at most MaxTextLen words

\* total_documents as a loaded checkpoint can set it: fresh, the last value of
\* the bootstrap branch, the first value past it
ScoredSoFar == {0, BootstrapDocs - 1, BootstrapDocs}

ScoreInit ==
    \E keywords \in SeqsUpTo(KeywordChoices, MaxKeywords), n \in ScoredSoFar :
        Constructed([WebCrawler(<<UA1>>, keywords, 1, 0, 300, TRUE, FALSE, {},
                                {}, "", "key1", FALSE)
                        EXCEPT !.total_documents = n],
                    [web |-> SmallWeb, robots |-> {"allow"}, oversleep |-> {0},
                     max_time |-> 0, max_saves |-> 0, max_signals |-> 0,
                     max_loads |-> 0, listing |-> "asc", db_add |-> {TRUE}],
                    <<>>, 0)

\* a call self._calculate_tfidf_score(text) with a str
ScoreText ==
    /\ last.op = "init"
    /\ \E words \in SeqsUpTo(RawWords, MaxTextLen) :
        LET out == _calculate_tfidf_score(self, [kind |-> "str", words |-> words]) IN
        /\ last' = [op |-> "score", words |-> words, out |-> out,
                    before |-> self.total_documents]
        /\ self' = [self EXCEPT !.total_documents = out.total_documents,
                                !.document_frequencies = out.document_frequencies]
    /\ UNCHANGED <<pc, cur, docs_since_recalc, now, files, timers, hpc, log, env>>

ScoreNext ==
    \/ ScoreText

SpecScore == ScoreInit /\ [][ScoreNext]_vars

\* the keywords (by position) that are substrings of the lower-cased text
OccurringKeywords ==
    {i \in 1..Len(self.keywords) :
        \/ \E j \in 1..Len(last.words) :
              SubstringOf(self.keywords[i], Lower(last.words[j]))
        \/ /\ self.keywords[i] = "foo bar"
           /\ \E j \in 1..(Len(last.words) - 1) :
                 Lower(last.words[j]) = "foo" /\ Lower(last.words[j + 1]) = "bar"}

DocFreq(df, t) == IF t \in DOMAIN df THEN df[t] ELSE 0

\* C30: every call that scores a document adds 1 to total_documents and 1 to
\* document_frequencies[t] for each distinct term t of the document.
C30_ScoringCounts ==
    (last.op = "score" /\ ~last.out.raised) =>
        /\ self.total_documents = last.before + 1
        /\ \A i \in 1..Len(last.words) :
              DocFreq(self.document_frequencies, Lower(last.words[i])) >= 1

-----------------------------------------------------------------------------
(* A session of scorer calls: a fresh crawler scores one text after another *)

MaxScored == 11         \* a session scores at most MaxScored texts

ScoreRunInit ==
    \E keywords \in SeqsUpTo(KeywordChoices, MaxKeywords) :
        Constructed(WebCrawler(<<UA1>>, keywords, 1, 0, 300, TRUE, FALSE, {},
                               {}, "", "key1", FALSE),
                    [web |-> SmallWeb, robots |-> {"allow"}, oversleep |-> {0},
                     max_time |-> 0, max_saves |-> 0, max_signals |-> 0,
                     max_loads |-> 0, listing |-> "asc", db_add |-> {TRUE}],
                    <<>>, 0)

\* how many texts the session has scored
Scored == IF last.op = "scored" THEN last.n ELSE 0

\* one more call self._calculate_tfidf_score(text) with a str; a call that
\* raises leaves the attributes as they were
ScoreDoc ==
    /\ last.op \in {"init", "scored"}
    /\ Scored < MaxScored
    /\ \E words \in SeqsUpTo(RawWords, MaxTextLen) :
        LET out == _calculate_tfidf_score(self, [kind |-> "str", words |-> words]) IN
        /\ last' = [op |-> "scored", words |-> words, out |-> out, n |-> Scored + 1]
        /\ self' = [self EXCEPT !.total_documents = out.total_documents,
                                !.document_frequencies = out.document_frequencies]
    /\ UNCHANGED <<pc, cur, docs_since_recalc, now, files, timers, hpc, log, env>>

ScoreRunNext ==
    \/ ScoreDoc

SpecScoreRun == ScoreRunInit /\ [][ScoreRunNext]_vars

\* C31: from a fresh session, once 10 documents have been scored the scorer
\* has left the bootstrap branch: total_documents is 10 or more, so that the
\* next document is scored by the tf*idf formula.
C31_LeavesBootstrap ==
    Scored >= BootstrapDocs => self.total_documents >= BootstrapDocs

-----------------------------------------------------------------------------
(* URL normalisation alone: every URL over a small alphabet *)

MaxPathLen == 4         \* a path has at most MaxPathLen tokens ("/" is a token)

PathTokens == {"/", "x", "X", "index.html", "p.html"}

\* the paths urlparse can return: empty, or starting with "/", a name never
\* directly followed by another name
NormPaths ==
    {path \in SeqsUpTo(PathTokens, MaxPathLen) :
        /\ path # <<>> => path[1] = "/"
        /\ \A i \in 1..(Len(path) - 1) : path[i] = "/" \/ path[i + 1] = "/"}

NormUrls ==
    {Url(h, port, path, q, f) :
        h \in {"a.test", "A.test"}, port \in {0, 80, 8080}, path \in NormPaths,
        q \in {"", "q=1"}, f \in {"", "frag"}}

NormInit ==
    Constructed(WebCrawler(<<UA1>>, <<"foo">>, 1, 0, 300, FALSE, FALSE, {},
                           {}, "", "key1", FALSE),
                [web |-> SmallWeb, robots |-> {"allow"}, oversleep |-> {0},
                 max_time |-> 0, max_saves |-> 0, max_signals |-> 0,
                 max_loads |-> 0, listing |-> "asc", db_add |-> {TRUE}],
                <<>>, 0)

\* a call self._normalize_url(url), and a second call on what it returned
Normalize ==
    /\ last.op = "init"
    /\ \E url \in NormUrls :
        last' = [op |-> "normalize", url |-> url, once |-> _normalize_url(url),
                 twice |-> _normalize_url(_normalize_url(url))]
    /\ UNCHANGED <<self, pc, cur, docs_since_recalc, now, files, timers, hpc, log, env>>

NormNext ==
    \/ Normalize

SpecNorm == NormInit /\ [][NormNext]_vars

\* C14: normalize(normalize(x)) = normalize(x) for every URL x.
C14_NormalizeIdempotent ==
    last.op = "normalize" => last.twice = last.once

-----------------------------------------------------------------------------
(* The domain filter alone: every filter configuration, every URL *)

FilterDomains == {Netloc(UA1), Netloc(UB)}

FilterInit ==
    \E seeds \in SeqsUpTo(CrawlUrls, 2), stay \in BOOLEAN,
       allowed \in SUBSET FilterDomains, excluded \in SUBSET FilterDomains :
        Constructed(WebCrawler(seeds, <<"foo">>, 1, 0, 300, FALSE, stay, allowed,
                               excluded, "", "key1", FALSE),
                    [web |-> SmallWeb, robots |-> {"allow"}, oversleep |-> {0},
                     max_time |-> 0, max_saves |-> 0, max_signals |-> 0,
                     max_loads |-> 0, listing |-> "asc", db_add |-> {TRUE}],
                    <<>>, 0)

\* a call self._should_crawl_domain(url), and the same question put to
\* filter_url_by_domain with the crawler's settings
CheckDomain ==
    /\ \E url \in CrawlUrls :
        last' = [op |-> "filter", url |-> url,
                 verdict |-> _should_crawl_domain(self, url),
                 helper |-> filter_url_by_domain(url, self.allowed_domains,
                                                 self.excluded_domains,
                                                 self.stay_in_domain, self.seed_domains)]
    /\ UNCHANGED <<self, pc, cur, docs_since_recalc, now, files, timers, hpc, log, env>>

FilterNext ==
    \/ CheckDomain

SpecFilter == FilterInit /\ [][FilterNext]_vars

SeedDomainsOf(seed_urls) == {Netloc(seed_urls[i]) : i \in 1..Len(seed_urls)}

\* C8 as stated: reject an excluded domain; else reject a domain absent from a
\* configured allowed set; else reject, with stay-in-domain on, a domain that
\* is not among the seed domains; else accept; the helper agrees.
C8_PrecedenceAsStated ==
    last.op = "filter" =>
        LET d == Netloc(last.url) IN
        /\ last.verdict =
              (IF d \in self.excluded_domains THEN FALSE
               ELSE IF self.allowed_domains # {} /\ d \notin self.allowed_domains
                    THEN FALSE
               ELSE IF self.stay_in_domain /\ d \notin SeedDomainsOf(self.seed_urls)
                    THEN FALSE
               ELSE TRUE)
        /\ last.helper = last.verdict

\* C8 (amended): as stated, except that the stay-in-domain rule rejects only
\* when the seed-domain list is non-empty; with stay-in-domain on and no seed
\* domain the URL is accepted.
C8_Precedence ==
    last.op = "filter" =>
        LET d == Netloc(last.url) IN
        /\ last.verdict =
              (IF d \in self.excluded_domains THEN FALSE
               ELSE IF self.allowed_domains # {} /\ d \notin self.allowed_domains
                    THEN FALSE
               ELSE IF /\ self.stay_in_domain
                       /\ SeedDomainsOf(self.seed_urls) # {}
                       /\ d \notin SeedDomainsOf(self.seed_urls)
                    THEN FALSE
               ELSE TRUE)
        /\ last.helper = last.verdict

\* a URL whose domain is both excluded and allowed, with stay-in-domain on and
\* the domain among the seed domains, was rejected
C8_Witness ==
    /\ last.op = "filter" /\ ~last.verdict
    /\ Netloc(last.url) \in self.excluded_domains
    /\ Netloc(last.url) \in self.allowed_domains
    /\ self.stay_in_domain
    /\ Netloc(last.url) \in SeedDomainsOf(self.seed_urls)

(***************************************************************************)
(* Seed suggestion: generate_seed_urls_with_gemini against every response  *)
(*                                                                         *)
(* The remote call is the environment.  Its outcome is a record: how the   *)
(* transport ended, the HTTP status, and what response.json() yields.  An  *)
(* exception is the name of its class; a line of generated text is a       *)
(* string, and the string methods the code applies to it are tabulated for *)
(* the lines of SeedLines.                                                 *)
(***************************************************************************)
MaxLines == 2           \* the generated text has at most MaxLines lines

DefaultSeeds == <<"https://en.wikipedia.org/wiki/Web_crawler", "https://www.python.org/", "https://news.ycombinator.com/">>

SeedLines == {"https://a.test/", "http://b.test", "ftp://c.test", "httpx://d.test", "http:///nohost", "http://[bad", "- https://a.test/", "HTTPS://A.TEST/"}

\* line.startswith('http')
StartsWithHttp(line) == line \in {"https://a.test/", "http://b.test", "httpx://d.test", "http:///nohost", "http://[bad"}

\* urlparse(line): it raises ValueError on an unclosed bracket; it lower-cases
\* the scheme and leaves the rest as written
UrlParse(line) ==
    CASE line = "https://a.test/"   -> [raises |-> FALSE, scheme |-> "https", netloc |-> "a.test"]
      [] line = "http://b.test"     -> [raises |-> FALSE, scheme |-> "http", netloc |-> "b.test"]
      [] line = "ftp://c.test"      -> [raises |-> FALSE, scheme |-> "ftp", netloc |-> "c.test"]
      [] line = "httpx://d.test"    -> [raises |-> FALSE, scheme |-> "httpx", netloc |-> "d.test"]
      [] line = "http:///nohost"    -> [raises |-> FALSE, scheme |-> "http", netloc |-> ""]
      [] line = "http://[bad"       -> [raises |-> TRUE, scheme |-> "", netloc |-> ""]
      [] line = "HTTPS://A.TEST/"   -> [raises |-> FALSE, scheme |-> "https", netloc |-> "A.TEST"]
      [] OTHER                      -> [raises |-> FALSE, scheme |-> "", netloc |-> ""]

\* the classes an exception is an instance of
Bases(cls) ==
    CASE cls = "Timeout"          -> {"Timeout", "RequestException", "Exception"}
      [] cls = "ConnectionError"  -> {"ConnectionError", "RequestException", "Exception"}
      [] cls = "RequestException" -> {"RequestException", "Exception"}
      [] cls = "JSONDecodeError"  -> {"JSONDecodeError", "ValueError", "Exception"}
      [] OTHER                    -> {cls, "Exception"}

\* the except clauses of the function without the last one
HandledRequestsOnly(cls) == Bases(cls) \cap {"Timeout", "ConnectionError", "RequestException", "JSONDecodeError"} # {}

\* the except clauses of the function: each of them only logs
Handled(cls) == Bases(cls) \cap {"Timeout", "ConnectionError", "RequestException", "JSONDecodeError", "Exception"} # {}

\* the lines the code keeps: those that start with 'http', then those whose
\* parse has scheme http or https and a host; a line whose parse raises is
\* skipped by the inner try
ValidUrls(lines) == SelectSeq(SelectSeq(lines, StartsWithHttp), LAMBDA url : ~UrlParse(url).raises /\ UrlParse(url).scheme \in {"http", "https"} /\ UrlParse(url).netloc # "")

\* the body of the try block: the exception it raises ("none" if none), and
\* whether it returned, and what
TryBody(outcome) ==
    LET Raise(cls) == [exc |-> cls, returned |-> FALSE, urls |-> <<>>]
        Fall == [exc |-> "none", returned |-> FALSE, urls |-> <<>>]
        body == outcome.body
    IN  IF outcome.transport # "ok" THEN Raise(outcome.transport)
        ELSE IF outcome.status # 200 THEN Raise("Exception")
        ELSE CASE body.kind = "not_json"         -> Raise("JSONDecodeError")
               [] body.kind = "null"             -> Raise("TypeError")
               [] body.kind = "error_dict"       -> Raise("Exception")
               [] body.kind = "error_str"        -> Raise("AttributeError")
               [] body.kind = "no_candidates"    -> Fall
               [] body.kind = "empty_candidates" -> Fall
               [] body.kind = "no_content"       -> Raise("Exception")
               [] body.kind = "no_parts"         -> Raise("Exception")
               [] body.kind = "empty_parts"      -> Raise("Exception")
               [] body.kind = "no_text"          -> Raise("KeyError")
               [] body.kind = "text"             ->
                    IF ValidUrls(body.lines) # <<>>
                    THEN [exc |-> "none", returned |-> TRUE, urls |-> ValidUrls(body.lines)]
                    ELSE Fall

\* generate_seed_urls_with_gemini(keywords, api_key): what it returns, or that
\* it raised.  The keywords only enter the prompt.
generate_seed_urls_with_gemini(keywords, api_key, outcome) ==
    LET Default == [raised |-> FALSE, exc |-> "none", urls |-> DefaultSeeds] IN
    IF api_key = "" THEN Default
    ELSE LET r == TryBody(outcome) IN
         IF r.exc # "none"
         THEN IF Handled(r.exc) THEN Default
              ELSE [raised |-> TRUE, exc |-> r.exc, urls |-> <<>>]
         ELSE IF r.returned THEN [raised |-> FALSE, exc |-> "none", urls |-> r.urls]
         ELSE Default

NoBody == [kind |-> "none", lines |-> <<>>]

\* what the remote end can do
Outcomes ==
    {[transport |-> t, status |-> 0, body |-> NoBody] : t \in {"Timeout", "ConnectionError", "RequestException"}}
    \cup {[transport |-> "ok", status |-> st, body |-> NoBody] : st \in {403, 500}}
    \cup {[transport |-> "ok", status |-> 200, body |-> [kind |-> k, lines |-> <<>>]] : k \in {"not_json", "null", "error_dict", "error_str", "no_candidates", "empty_candidates", "no_content", "no_parts", "empty_parts", "no_text"}}
    \cup {[transport |-> "ok", status |-> 200, body |-> [kind |-> "text", lines |-> ls]] : ls \in SeqsUpTo(SeedLines, MaxLines)}

SeedInit ==
    Constructed(WebCrawler(<<UA1>>, <<"foo">>, 1, 0, 300, FALSE, FALSE, {},
                           {}, "", "key1", FALSE),
                [web |-> SmallWeb, robots |-> {"allow"}, oversleep |-> {0},
                 max_time |-> 0, max_saves |-> 0, max_signals |-> 0,
                 max_loads |-> 0, listing |-> "asc", db_add |-> {TRUE}],
                <<>>, 0)

\* a call generate_seed_urls_with_gemini(keywords, api_key)
SuggestSeeds ==
    /\ last.op = "init"
    /\ \E api_key \in {"", "key1"}, outcome \in Outcomes :
        last' = [op |-> "seeds", api_key |-> api_key, outcome |-> outcome,
                 result |-> generate_seed_urls_with_gemini(<<"foo">>, api_key, outcome)]
    /\ UNCHANGED <<self, pc, cur, docs_since_recalc, now, files, timers, hpc, log, env>>

SeedNext ==
    \/ SuggestSeeds

SpecSeed == SeedInit /\ [][SeedNext]_vars

\* a line that is an http or https URL with a host, whatever its case
ValidHttpUrl(line) == ~UrlParse(line).raises /\ UrlParse(line).scheme \in {"http", "https"} /\ UrlParse(line).netloc # ""

\* the failure outcomes: no key, a failed transport, a status other than 200,
\* a body that is not the expected text, or a text none of whose lines is a
\* valid URL
SeedFailure(api_key, outcome) ==
    \/ api_key = ""
    \/ outcome.transport # "ok"
    \/ outcome.status # 200
    \/ outcome.body.kind # "text"
    \/ \A i \in 1..Len(outcome.body.lines) : ~ValidHttpUrl(outcome.body.lines[i])

\* C19: on every failure outcome the call returns the fixed default list and
\* does not raise; whatever the outcome, it returns a non-empty list.
C19_SeedFallback ==
    last.op = "seeds" =>
        /\ ~last.result.raised
        /\ last.result.urls # <<>>
        /\ SeedFailure(last.api_key, last.outcome) => last.result.urls = DefaultSeeds

\* with a key, the call got a 200 whose text has lines, none of them a valid
\* URL and one of them unparsable, and the default list came back
C19_Witness ==
    /\ last.op = "seeds" /\ last.api_key # ""
    /\ last.outcome.transport = "ok" /\ last.outcome.status = 200
    /\ last.outcome.body.kind = "text"
    /\ \E i \in 1..Len(last.outcome.body.lines) : UrlParse(last.outcome.body.lines[i]).raises
    /\ \A i \in 1..Len(last.outcome.body.lines) : ~ValidHttpUrl(last.outcome.body.lines[i])
    /\ last.result.urls = DefaultSeeds

(***************************************************************************)
(* Construction alone: WebCrawler(...) on every small argument list        *)
(***************************************************************************)
MaxSeeds == 2           \* a seed list has at most MaxSeeds URLs, repeats allowed

NewInit ==
    Constructed(WebCrawler(<<UA1>>, <<"foo">>, 1, 0, 300, FALSE, FALSE, {},
                           {}, "", "key1", FALSE),
                [web |-> SmallWeb, robots |-> {"allow"}, oversleep |-> {0},
                 max_time |-> 0, max_saves |-> 0, max_signals |-> 0,
                 max_loads |-> 0, listing |-> "asc", db_add |-> {TRUE}],
                <<>>, 0)

\* crawler = WebCrawler(seed_urls, keywords, max_depth=..., delay=..., ...)
Construct ==
    /\ last.op = "init"
    /\ \E seed_urls \in SeqsUpTo(CrawlUrls, MaxSeeds), keywords \in SeqsUpTo({"foo", "bar"}, MaxKeywords), max_depth \in -1..MaxDepthBound, delay \in -1..MaxDelay, checkpoint_interval \in {30, 300, 4000}, use_tfidf \in BOOLEAN, stay_in_domain \in BOOLEAN :
        /\ self' = WebCrawler(seed_urls, keywords, max_depth, delay, checkpoint_interval, use_tfidf, stay_in_domain, {}, {}, "", "key1", FALSE)
        /\ last' = [op |-> "construct", seed_urls |-> seed_urls, keywords |-> keywords, max_depth |-> max_depth, delay |-> delay]
    /\ UNCHANGED <<pc, cur, docs_since_recalc, now, files, timers, hpc, log, env>>

NewNext ==
    \/ Construct

SpecNew == NewInit /\ [][NewNext]_vars

\* C20: after WebCrawler(seed_urls, keywords, max_depth, delay) the object
\* holds these four values as given, its queue is the seed URLs in the given
\* order, each at depth 0, its visited set and result list are empty and no
\* crawl is in progress.
C20_Constructed ==
    last.op = "construct" =>
        /\ self.seed_urls = last.seed_urls
        /\ self.keywords = last.keywords
        /\ self.max_depth = last.max_depth
        /\ self.delay = last.delay
        /\ Len(self.queue) = Len(last.seed_urls)
        /\ \A i \in 1..Len(last.seed_urls) : self.queue[i] = <<last.seed_urls[i], 0>>
        /\ self.visited = {}
        /\ self.results = <<>>
        /\ ~self.crawl_in_progress

\* a crawler was constructed from two different seed URLs, with a negative
\* delay and an interval the constructor clamps
C20_Witness ==
    /\ last.op = "construct"
    /\ Len(last.seed_urls) = 2 /\ last.seed_urls[1] # last.seed_urls[2]
    /\ last.delay < 0
    /\ self.checkpoint_interval = 60
    /\ Len(self.queue) = 2

====
